---- MODULE Spec2Model ----
(***************************************************************************)
(* Grove: the workspace lifecycle engine (create / delete / prune) over a  *)
(* git repository with linked worktrees.  The repository is the state; one *)
(* action per command models the whole command handler, with the outcomes  *)
(* of the external tool, the file system and the hooks drawn from small    *)
(* sets.  Branch names and feature texts are sequences of characters so    *)
(* that sanitizeBranchName is computed, not assumed.                       *)
(***************************************************************************)
EXTENDS Integers, Sequences, FiniteSets, TLC

\* Number of commands and external git operations in one behaviour.
MaxSteps == 3

(***************************************************************************)
(* Names, feature texts and paths                                          *)
(***************************************************************************)
Main == <<"m", "a", "i", "n">>
Master == <<"m", "a", "s", "t", "e", "r">>
Develop == <<"d", "e", "v", "e", "l", "o", "p">>
FA == <<"f", "a">>
FB == <<"f", "b">>
NoBranch == <<>>

\* Branch names that appear in the bounded repository.
Names == {Main, FA, FB}

\* Feature texts given to create.
Features == {Main, FA, <<" ", "F", "b">>, <<"#">>}

LowerSeq == <<"a", "b", "c", "d", "e", "f", "g", "h", "i", "j", "k", "l", "m",
              "n", "o", "p", "q", "r", "s", "t", "u", "v", "w", "x", "y", "z">>
UpperSeq == <<"A", "B", "C", "D", "E", "F", "G", "H", "I", "J", "K", "L", "M",
              "N", "O", "P", "Q", "R", "S", "T", "U", "V", "W", "X", "Y", "Z">>
Digits == {"0", "1", "2", "3", "4", "5", "6", "7", "8", "9"}

LowerLetters == {LowerSeq[i] : i \in 1..26}
UpperLetters == {UpperSeq[i] : i \in 1..26}
LowerOf == [c \in UpperLetters |-> LowerSeq[CHOOSE i \in 1..26 : UpperSeq[i] = c]]

toLowerCase(c) == IF c \in UpperLetters THEN LowerOf[c] ELSE c

\* [a-z0-9-]
IsBranchChar(c) == c \in LowerLetters \/ c \in Digits \/ c = "-"

\* A text left with its runs of dashes.
KeepDashes(s) == s

\* .replace(/-+/g, "-")
RECURSIVE CollapseDashes(_)
CollapseDashes(s) ==
    IF Len(s) <= 1 THEN s
    ELSE IF s[1] = "-" /\ s[2] = "-" THEN CollapseDashes(Tail(s))
    ELSE <<s[1]>> \o CollapseDashes(Tail(s))

\* .replace(/^-|-$/g, "")
TrimDashes(s) ==
    LET a == IF Len(s) > 0 /\ s[1] = "-" THEN Tail(s) ELSE s
    IN  IF Len(a) > 0 /\ a[Len(a)] = "-" THEN SubSeq(a, 1, Len(a) - 1) ELSE a

sanitizeBranchName(name) ==
    LET lower == [i \in 1..Len(name) |-> toLowerCase(name[i])]
        repl  == [i \in 1..Len(name) |-> IF IsBranchChar(lower[i]) THEN lower[i] ELSE "-"]
    IN  TrimDashes(CollapseDashes(repl))

\* Feature texts of up to MaxLen characters over upper and lower case
\* letters, digits, the dash and characters outside [A-Za-z0-9-].
MaxLen == 3
Alphabet == {"a", "Z", "7", "-", " ", "/", "_", "#"}
RECURSIVE Texts(_)
Texts(n) ==
    IF n = 0 THEN {<<>>}
    ELSE LET shorter == Texts(n - 1)
         IN  shorter \cup {Append(s, c) : s \in {x \in shorter : Len(x) = n - 1},
                                           c \in Alphabet}
FeatureTexts == Texts(MaxLen)

\* Paths: the primary directory (or the bare git directory), the
\* <project>__worktrees directory next to it, and one directory per name in it.
Root == [k |-> "root", n |-> <<>>]
WRoot == [k |-> "wroot", n |-> <<>>]
NoPath == [k |-> "none", n |-> <<>>]
\* join(worktreeRoot, name): an empty name yields the worktree root itself.
Canon(n) == IF n = <<>> THEN WRoot ELSE [k |-> "canon", n |-> n]
\* resolve(token) of a name token relative to the current directory.
Rel(n) == [k |-> "rel", n |-> n]

CanonPaths == {Canon(n) : n \in Names}
\* <root>/fb: a directory inside the root directory that the user may have
\* made a linked worktree with `git worktree add`.
Nested == [k |-> "nested", n |-> FB]
WtPaths == {Root} \cup CanonPaths \cup {Nested}

\* A subdirectory inside the worktree p, and the worktree a path lies in.
Sub(p) == [k |-> "sub:" \o p.k, n |-> p.n]
SubPaths == {Sub(Root), Sub(Canon(FA))}
Enclosing(p) ==
    IF p = Sub(Root) THEN Root
    ELSE IF p = Sub(Canon(FA)) THEN Canon(FA)
    ELSE p

\* path.resolve(token) against the current directory, and
\* path.resolve(configPath, `../<project>__worktrees/<token>`) with the
\* configuration found in the root directory.
Join(cwd, n) ==
    IF cwd = Root /\ n = FB THEN Nested
    ELSE [k |-> "join:" \o cwd.k, n |-> cwd.n \o <<"/">> \o n]
resolve(cwd, token) == IF token.k = "rel" THEN Join(cwd, token.n) ELSE token
possiblePathOf(token) ==
    IF token.k = "rel" THEN Canon(token.n)
    ELSE [k |-> "wroot/" \o token.k, n |-> token.n]
\* Order in which the external tool lists the linked worktrees.
CanonOrder == <<Canon(FA), Canon(FB), Canon(Main), Nested>>

(***************************************************************************)
(* Project configuration                                                   *)
(***************************************************************************)
NoConfig == [present |-> FALSE, hooks |-> {}, defaultInstall |-> FALSE,
             copyFiles |-> FALSE, symlinkFiles |-> FALSE]
\* What init writes: copyFiles [".env*", ".vscode/"], postSetup "<pm> install".
InitConfig == [present |-> TRUE, hooks |-> {"postSetup"}, defaultInstall |-> TRUE,
               copyFiles |-> TRUE, symlinkFiles |-> FALSE]
FullConfig == [present |-> TRUE, hooks |-> {"postSetup", "preDelete", "postDelete"},
               defaultInstall |-> FALSE, copyFiles |-> TRUE, symlinkFiles |-> TRUE]
Configs == {NoConfig, InitConfig, FullConfig}

\* The revision that assigns ports: the base port init writes, the project
\* id it generates, and a global state without projects.
BasePort == 3000
ProjectId == [k |-> "projectId", n |-> <<>>]
NoGlobalState == [id \in {} |-> [p \in {} |-> BasePort]]

VARIABLES
    bare,          \* the repository is a bare repository
    hasOrigin,     \* a remote named origin exists, its HEAD names Main
    remoteBranches,\* branches present as refs/remotes/origin/<name>
    manifest,      \* a package.json is present in the checked-out tree
    config,        \* the project configuration stored in the root directory
    dirs,          \* directories present on disk
    linked,        \* linked worktrees registered in the repository metadata
    head,          \* branch checked out in each worktree (NoBranch: detached)
    dirty,         \* worktrees with uncommitted or untracked files
    branches,      \* local branches
    merged,        \* names whose tip is an ancestor of the merge target
    globalState,   \* ~/.grove/state.json: port assignments of each project id
    last,          \* observation of the last command
    steps

repoVars == <<dirs, linked, head, dirty, branches, merged>>
envVars == <<bare, hasOrigin, remoteBranches, manifest, config, globalState>>
vars == <<bare, hasOrigin, remoteBranches, manifest, config, globalState,
          dirs, linked, head, dirty, branches, merged, last, steps>>

\* The mutable repository as one value, threaded through a command's steps.
World == [dirs |-> dirs, linked |-> linked, head |-> head, dirty |-> dirty,
          branches |-> branches, merged |-> merged]

Ev(op, path, branch) == [op |-> op, path |-> path, branch |-> branch]

EmptyWorld == [dirs |-> {}, linked |-> {}, head |-> [p \in WtPaths |-> NoBranch],
               dirty |-> {}, branches |-> {}, merged |-> {}]

\* The ref a merge check is made against: origin/<n> or the local branch <n>.
NoTarget == [k |-> "none", n |-> NoBranch]

NoLast == [cmd |-> "none", pre |-> EmptyWorld, cwd |-> NoPath, token |-> NoPath, feature |-> <<>>,
           force |-> FALSE, dryRun |-> FALSE,
           result |-> "ok", err |-> "", failed |-> "none", note |-> "",
           target |-> NoPath, branch |-> NoBranch,
           events |-> <<>>, out |-> <<>>,
           candidates |-> {}, removed |-> {}, created |-> FALSE, newBranch |-> FALSE,
           autoCreate |-> FALSE, tried |-> <<>>, asked |-> 0,
           mergeTarget |-> NoTarget]

(***************************************************************************)
(* Repository introspection (GitService, FileService, ConfigService)       *)
(***************************************************************************)
\* FileService.pathExists
pathExists(w, p) == Enclosing(p) \in w.dirs

\* GitService.isGitRepository: `git -C path rev-parse --git-dir` succeeds in
\* the root directory and in a registered worktree directory that is on disk.
isGitRepository(w, p) ==
    LET q == Enclosing(p) IN
    \/ q = Root
    \/ q \in WtPaths /\ q \in w.dirs /\ q \in w.linked

\* GitService.getRepoRoot: `rev-parse --show-toplevel` fails where there is no
\* work tree (the bare git directory); otherwise it is the worktree itself.
getRepoRoot(w, p) ==
    IF isGitRepository(w, p) /\ ~(Enclosing(p) = Root /\ bare)
    THEN [ok |-> TRUE, path |-> Enclosing(p)]
    ELSE [ok |-> FALSE, path |-> NoPath]

\* A query that names a detached head "HEAD", as `git rev-parse --abbrev-ref
\* HEAD` does.
getCurrentBranchAbbrevRef(w, p) ==
    IF p \in WtPaths
    THEN IF w.head[p] = NoBranch THEN <<"H", "E", "A", "D">> ELSE w.head[p]
    ELSE NoBranch

\* GitService.getCurrentBranch: empty for a detached head.
getCurrentBranch(w, p) == IF p \in WtPaths THEN w.head[p] ELSE NoBranch

commonBranches == <<Main, Master, Develop>>

\* GitService.getMainBranch: origin's symbolic HEAD, else the first
\* conventional name that exists as a local branch, else an error.
getMainBranch(w) ==
    IF hasOrigin THEN [ok |-> TRUE, branch |-> Main]
    ELSE IF \E i \in 1..Len(commonBranches) : commonBranches[i] \in w.branches
    THEN [ok |-> TRUE,
          branch |-> commonBranches[CHOOSE i \in 1..Len(commonBranches) :
                        /\ commonBranches[i] \in w.branches
                        /\ \A j \in 1..(i - 1) : commonBranches[j] \notin w.branches]]
    ELSE [ok |-> FALSE, branch |-> NoBranch]

\* `git show-ref --verify refs/remotes/origin/<b>` after the fetch.
remoteRefExists(b) == hasOrigin /\ (b = Main \/ b \in remoteBranches)

\* A merge target that is always the local default branch.
mergeTargetLocalOnly(w) == [k |-> "local", n |-> getMainBranch(w).branch]

\* The merge target of delete and prune: origin/<default> when that remote
\* ref exists, the local default branch otherwise.
mergeTarget(w) ==
    LET mainBranch == getMainBranch(w).branch
    IN  IF remoteRefExists(mainBranch) THEN [k |-> "origin", n |-> mainBranch]
        ELSE [k |-> "local", n |-> mainBranch]

\* ConfigService.readProjectConfig: the configuration file lives in the root
\* directory only.
readProjectConfig(p) == IF p = Root THEN config ELSE NoConfig

\* Output of `git worktree list --porcelain`, one record per line.
Line(t, v) == [t |-> t, v |-> v]

BlockOf(w, p) ==
    <<Line("worktree", p)>> \o
    (IF p = Root /\ bare THEN <<Line("bare", <<>>)>>
     ELSE <<Line("HEAD", w.head[p])>> \o
          (IF w.head[p] = NoBranch THEN <<Line("detached", <<>>)>>
           ELSE <<Line("branch", w.head[p])>>))

RECURSIVE LinkedBlocks(_, _)
LinkedBlocks(w, i) ==
    IF i > Len(CanonOrder) THEN <<>>
    ELSE (IF CanonOrder[i] \in w.linked THEN BlockOf(w, CanonOrder[i]) ELSE <<>>)
         \o LinkedBlocks(w, i + 1)

Porcelain(w) == BlockOf(w, Root) \o LinkedBlocks(w, 1)

EmptyRec == [path |-> NoPath, head |-> <<>>, branch |-> NoBranch, isMain |-> FALSE]

\* A loop that keeps the fields of the previous block when a block begins.
RECURSIVE ParseLinesInheriting(_, _, _, _)
ParseLinesInheriting(lines, i, worktrees, cur) ==
    IF i > Len(lines)
    THEN IF cur.path # NoPath THEN Append(worktrees, cur) ELSE worktrees
    ELSE LET l == lines[i] IN
         IF l.t = "worktree"
         THEN ParseLinesInheriting(lines, i + 1,
                         IF cur.path # NoPath THEN Append(worktrees, cur) ELSE worktrees,
                         [cur EXCEPT !.path = l.v])
         ELSE IF l.t = "HEAD"
         THEN ParseLinesInheriting(lines, i + 1, worktrees, [cur EXCEPT !.head = l.v])
         ELSE IF l.t = "branch"
         THEN ParseLinesInheriting(lines, i + 1, worktrees, [cur EXCEPT !.branch = l.v])
         ELSE IF l.t = "bare"
         THEN ParseLinesInheriting(lines, i + 1, worktrees, [cur EXCEPT !.isMain = TRUE])
         ELSE ParseLinesInheriting(lines, i + 1, worktrees, cur)

\* The line-classification loop of getWorktrees.
RECURSIVE ParseLines(_, _, _, _)
ParseLines(lines, i, worktrees, cur) ==
    IF i > Len(lines)
    THEN IF cur.path # NoPath THEN Append(worktrees, cur) ELSE worktrees
    ELSE LET l == lines[i] IN
         IF l.t = "worktree"
         THEN ParseLines(lines, i + 1,
                         IF cur.path # NoPath THEN Append(worktrees, cur) ELSE worktrees,
                         [EmptyRec EXCEPT !.path = l.v])
         ELSE IF l.t = "HEAD"
         THEN ParseLines(lines, i + 1, worktrees, [cur EXCEPT !.head = l.v])
         ELSE IF l.t = "branch"
         THEN ParseLines(lines, i + 1, worktrees, [cur EXCEPT !.branch = l.v])
         ELSE IF l.t = "bare"
         THEN ParseLines(lines, i + 1, worktrees, [cur EXCEPT !.isMain = TRUE])
         ELSE ParseLines(lines, i + 1, worktrees, cur)

\* A marking that overwrites the flag the "bare" line has set.
MarkMainOverwriting(rec, mainBranch) ==
    [rec EXCEPT !.isMain = (rec.branch = mainBranch)]

\* "Mark main worktree": a record not yet marked is main iff its branch is the
\* main branch.
MarkMain(rec, mainBranch) ==
    IF rec.isMain THEN rec ELSE [rec EXCEPT !.isMain = (rec.branch = mainBranch)]

\* GitService.getWorktrees
getWorktrees(w) ==
    LET mb == getMainBranch(w)
        parsed == ParseLines(Porcelain(w), 1, <<>>, EmptyRec)
    IN  IF ~mb.ok THEN [ok |-> FALSE, list |-> <<>>]
        ELSE [ok |-> TRUE,
              list |-> [i \in 1..Len(parsed) |-> MarkMain(parsed[i], mb.branch)]]

\* worktrees.find(w => w.isMain)
findMain(list) ==
    IF \E i \in 1..Len(list) : list[i].isMain
    THEN [found |-> TRUE,
          rec |-> list[CHOOSE i \in 1..Len(list) :
                         list[i].isMain /\ \A j \in 1..(i - 1) : ~list[j].isMain]]
    ELSE [found |-> FALSE, rec |-> EmptyRec]

\* A branch checked out in a worktree cannot be checked out again or deleted;
\* the bare root holds no checkout.
CheckedOut(w, b) ==
    /\ b # NoBranch
    /\ \/ ~bare /\ w.head[Root] = b
       \/ \E p \in w.linked : w.head[p] = b

\* GitService.isBranchMerged: the branch tip is an ancestor of the target tip.
isBranchMerged(w, b) == b \in w.merged

\* GitService.pruneWorktrees: `git worktree prune` drops the registration of
\* every linked worktree whose directory is gone.
pruneWorktrees(w) ==
    LET stale == {p \in w.linked : p \notin w.dirs}
    IN  [w EXCEPT !.linked = w.linked \ stale,
                  !.head = [p \in WtPaths |-> IF p \in stale THEN NoBranch ELSE w.head[p]],
                  !.dirty = w.dirty \ stale]

(***************************************************************************)
(* Mutating calls to the external tool and the file system                 *)
(***************************************************************************)
\* A createWorktree that prefers the branch of origin to the local branch.
createWorktreeRemoteFirst(w, path, branch, failAt) ==
    LET localBranchExists == branch \in w.branches
        remoteBranchExists == branch \in remoteBranches
        mode == IF remoteBranchExists THEN "remote"
                ELSE IF localBranchExists THEN "local" ELSE "new"
        addOk == failAt # "add" /\ branch # NoBranch /\ path \notin w.dirs
                 /\ path \notin w.linked /\ ~CheckedOut(w, branch)
        w1 == [w EXCEPT !.dirs = @ \cup {path},
                        !.linked = @ \cup {path},
                        !.head = [p \in WtPaths |-> IF p = path THEN branch ELSE w.head[p]],
                        !.branches = @ \cup {branch}]
    IN  IF ~addOk
        THEN [ok |-> FALSE, w |-> w, failed |-> "add", events |-> <<>>,
              created |-> FALSE, newBranch |-> FALSE]
        ELSE [ok |-> TRUE, w |-> w1, failed |-> "none",
              events |-> <<Ev("worktreeAdd:" \o mode, path, branch)>>,
              created |-> TRUE, newBranch |-> ~localBranchExists]

\* GitService.createWorktree: exactly one of three `git worktree add` forms,
\* then the upstream of a branch created from origin.  failAt names the call
\* the environment makes fail.
createWorktree(w, path, branch, failAt) ==
    LET localBranchExists == branch \in w.branches
        remoteBranchExists == branch \in remoteBranches
        mode == IF localBranchExists THEN "local"
                ELSE IF remoteBranchExists THEN "remote" ELSE "new"
        addOk == /\ failAt # "add"
                 /\ branch # NoBranch
                 /\ path \notin w.dirs
                 /\ path \notin w.linked
                 /\ (mode = "local" => ~CheckedOut(w, branch))
                 /\ (mode = "new" /\ bare => Main \in w.branches)
        baseMerged == bare \/ w.head[Root] \in w.merged
        w1 == [w EXCEPT !.dirs = @ \cup {path},
                        !.linked = @ \cup {path},
                        !.head = [p \in WtPaths |-> IF p = path THEN branch ELSE w.head[p]],
                        !.branches = @ \cup {branch},
                        !.merged = IF mode # "new" THEN @
                                   ELSE IF baseMerged THEN @ \cup {branch}
                                   ELSE @ \ {branch}]
        ev == <<Ev("worktreeAdd:" \o mode, path, branch)>>
    IN  IF ~addOk
        THEN [ok |-> FALSE, w |-> w, failed |-> "add", events |-> <<>>,
              created |-> FALSE, newBranch |-> FALSE]
        ELSE IF remoteBranchExists /\ ~localBranchExists /\ failAt = "upstream"
        THEN [ok |-> FALSE, w |-> w1, failed |-> "upstream", events |-> ev,
              created |-> TRUE, newBranch |-> TRUE]
        ELSE [ok |-> TRUE, w |-> w1, failed |-> "none", events |-> ev,
              created |-> TRUE, newBranch |-> ~localBranchExists]

\* GitService.deleteWorktree: `git worktree remove` (no --force) refuses a
\* path that is not a linked worktree on disk, and a worktree with changes.
deleteWorktree(w, path, fail) ==
    LET ok == /\ ~fail
              /\ path \in w.linked
              /\ path \in w.dirs
              /\ path \notin w.dirty
    IN  [ok |-> ok,
         w |-> IF ~ok THEN w
               ELSE [w EXCEPT !.dirs = @ \ {path},
                              !.linked = @ \ {path},
                              !.dirty = @ \ {path},
                              !.head = [p \in WtPaths |->
                                          IF p = path THEN NoBranch ELSE w.head[p]]]]

\* A branch deletion that reports success and leaves the branch.
deleteLocalBranchIgnored(w, branch, force, fail) == [ok |-> ~fail, w |-> w]

\* The git command deleteLocalBranch runs.
branchDeleteOp(force) == IF force THEN "branch -D" ELSE "branch -d"

\* GitService.deleteLocalBranch: `git branch -d|-D`; git refuses a branch that
\* does not exist or is checked out in a worktree, and -d one that is not
\* merged.
deleteLocalBranch(w, branch, force, fail) ==
    LET ok == /\ ~fail
              /\ branch \in w.branches
              /\ ~CheckedOut(w, branch)
              /\ (force \/ branch \in w.merged)
    IN  [ok |-> ok,
         w |-> IF ok THEN [w EXCEPT !.branches = @ \ {branch}] ELSE w]

\* FileService.deleteDirectory: rm -rf of the directory and what is below it.
deleteDirectory(w, path, fail) ==
    LET gone == {path} \cup (IF path = WRoot THEN CanonPaths ELSE {})
    IN  [ok |-> ~fail,
         w |-> IF fail THEN w
               ELSE [w EXCEPT !.dirs = @ \ gone, !.dirty = @ \ gone]]

\* HookService.runHook: nothing runs without a configured command, nor for a
\* default install command as postSetup hook where no package.json exists.
runHook(hookName, cfg, fail) ==
    LET configured == hookName \in cfg.hooks
        skipped == hookName = "postSetup" /\ cfg.defaultInstall /\ ~manifest
        ran == configured /\ ~skipped
    IN  [ran |-> ran, ok |-> ~(ran /\ fail)]

\* The hook runner on command texts.  A command is a sequence of words
\* and whitespace characters.
DEFAULT_INSTALL_HOOKS ==
    {<<pm, " ", "install">> : pm \in {"bun", "npm", "pnpm", "yarn"}}

IsSpace(c) == c \in {" ", "\t"}

\* hookCommand.trim().replace(/\s+/g, " "), on the rest of the text from
\* position i; `started` tells that a word has been seen, `gap` that
\* whitespace was seen since the last word.
RECURSIVE normalizeFrom(_, _, _, _)
normalizeFrom(s, i, started, gap) ==
    IF i > Len(s) THEN <<>>
    ELSE IF IsSpace(s[i]) THEN normalizeFrom(s, i + 1, started, started)
    ELSE (IF gap THEN <<" ", s[i]>> ELSE <<s[i]>>) \o normalizeFrom(s, i + 1, TRUE, FALSE)

normalizeCommand(s) == normalizeFrom(s, 1, FALSE, FALSE)

\* A rule that leaves out the hook name.
skipsAnyDefaultInstall(hookName, normalizedCommand, hasPackageJson) ==
    normalizedCommand \in DEFAULT_INSTALL_HOOKS /\ ~hasPackageJson

\* The default-install rule: only the postSetup hook is skipped.
skipsDefaultInstall(hookName, normalizedCommand, hasPackageJson) ==
    /\ hookName = "postSetup"
    /\ normalizedCommand \in DEFAULT_INSTALL_HOOKS
    /\ ~hasPackageJson

\* HookService.runHook on a command text: whether the command is executed.
runHookCommand(hookName, hookCommand, hasPackageJson) ==
    IF hookCommand = <<>> THEN FALSE
    ELSE ~skipsDefaultInstall(hookName, normalizeCommand(hookCommand), hasPackageJson)

(***************************************************************************)
(* create (setupCommand)                                                   *)
(***************************************************************************)
SetupFailPoints == {"none", "mkdir", "add", "upstream", "copy", "symlink", "hook"}
RollbackOutcomes == {"ok", "gitFail", "bothFail"}

\* A catch block without the deleteDirectory fallback.
setupRollbackGitOnly(w, targetPath, rb) ==
    IF ~pathExists(w, targetPath)
    THEN [w |-> w, masked |-> FALSE, events |-> <<>>]
    ELSE LET g == deleteWorktree(w, targetPath, rb # "ok") IN
         IF g.ok
         THEN [w |-> g.w, masked |-> FALSE,
               events |-> <<Ev("worktreeRemove", targetPath, NoBranch)>>]
         ELSE [w |-> w, masked |-> FALSE, events |-> <<>>]

\* A catch block that also deletes the branch of the removed worktree.
setupRollbackWithBranch(w, targetPath, rb) ==
    IF ~pathExists(w, targetPath)
    THEN [w |-> w, masked |-> FALSE, events |-> <<>>]
    ELSE LET g == deleteWorktree(w, targetPath, rb # "ok")
             b == deleteLocalBranch(g.w, w.head[targetPath], TRUE, FALSE)
         IN  IF g.ok
             THEN [w |-> b.w, masked |-> FALSE,
                   events |-> <<Ev("worktreeRemove", targetPath, NoBranch),
                                Ev(branchDeleteOp(TRUE), NoPath, w.head[targetPath])>>]
             ELSE LET d == deleteDirectory(w, targetPath, rb = "bothFail") IN
                  IF d.ok
                  THEN [w |-> d.w, masked |-> FALSE,
                        events |-> <<Ev("deleteDirectory", targetPath, NoBranch)>>]
                  ELSE [w |-> w, masked |-> TRUE, events |-> <<>>]

\* The catch block of setupCommand: remove the worktree through git, else
\* delete the directory; an error of deleteDirectory leaves the catch block
\* in place of the original error.
setupRollback(w, targetPath, rb) ==
    IF ~pathExists(w, targetPath)
    THEN [w |-> w, masked |-> FALSE, events |-> <<>>]
    ELSE LET g == deleteWorktree(w, targetPath, rb # "ok") IN
         IF g.ok
         THEN [w |-> g.w, masked |-> FALSE,
               events |-> <<Ev("worktreeRemove", targetPath, NoBranch)>>]
         ELSE LET d == deleteDirectory(w, targetPath, rb = "bothFail") IN
              IF d.ok
              THEN [w |-> d.w, masked |-> FALSE,
                    events |-> <<Ev("deleteDirectory", targetPath, NoBranch)>>]
              ELSE [w |-> w, masked |-> TRUE, events |-> <<>>]

setupCommand(w, cwd, feature, failAt, rb) ==
    LET cfg == readProjectConfig(cwd)
        branchName == sanitizeBranchName(feature)
        worktreeRoot == WRoot
        targetPath == Canon(branchName)
        Obs == [NoLast EXCEPT !.cmd = "create", !.pre = w, !.cwd = cwd, !.feature = feature,
                              !.target = targetPath, !.branch = branchName]
        Refuse(e) == [w |-> w, obs |-> [Obs EXCEPT !.result = "error", !.err = e]]
        \* try block, step by step
        mk == failAt # "mkdir"
        w0 == IF mk THEN [w EXCEPT !.dirs = @ \cup {worktreeRoot}] ELSE w
        cw == createWorktree(w0, targetPath, branchName, failAt)
        copyOk == ~(cfg.copyFiles /\ failAt = "copy")
        linkOk == ~(cfg.symlinkFiles /\ failAt = "symlink")
        hook == runHook("postSetup", cfg, failAt = "hook")
        failed == IF ~mk THEN "mkdir"
                  ELSE IF ~cw.ok THEN cw.failed
                  ELSE IF ~copyOk THEN "copy"
                  ELSE IF ~linkOk THEN "symlink"
                  ELSE IF ~hook.ok THEN "hook"
                  ELSE "none"
        wt == IF ~mk THEN w ELSE cw.w
        evs == (IF mk THEN cw.events ELSE <<>>)
               \o (IF failed \in {"symlink", "hook", "none"} /\ cfg.copyFiles
                   THEN <<Ev("copyFiles", targetPath, NoBranch)>> ELSE <<>>)
               \o (IF failed \in {"hook", "none"} /\ cfg.symlinkFiles
                   THEN <<Ev("symlinkFiles", targetPath, NoBranch)>> ELSE <<>>)
               \o (IF failed \in {"hook", "none"} /\ hook.ran
                   THEN <<Ev("hook:postSetup", targetPath, branchName)>> ELSE <<>>)
        rbk == setupRollback(wt, targetPath, rb)
        ObsT == [Obs EXCEPT !.created = (mk /\ cw.created),
                            !.newBranch = (mk /\ cw.newBranch),
                            !.failed = failed]
    IN  IF ~isGitRepository(w, cwd) THEN Refuse("NotARepository")
        ELSE IF ~cfg.present THEN Refuse("NotInitialized")
        ELSE IF pathExists(w, targetPath) THEN Refuse("AlreadyExists")
        ELSE IF failed = "none"
        THEN [w |-> wt,
              obs |-> [ObsT EXCEPT !.events = evs, !.out = <<targetPath>>]]
        ELSE [w |-> rbk.w,
              obs |-> [ObsT EXCEPT !.result = "error",
                                   !.err = IF rbk.masked THEN "deleteDirectory" ELSE failed,
                                   !.events = evs \o rbk.events]]

\* A confirmation step that prompts with and without force.
promptsAskedAlways(force) == 1

\* `if (!force) { const response = await prompts(...) }`: the number of
\* prompts shown by a command that reaches its confirmation step.
promptsAsked(force) == IF force THEN 0 ELSE 1

(***************************************************************************)
(* delete (deleteCommand)                                                  *)
(***************************************************************************)
DeleteFailPoints == {"none", "fetch", "preDelete", "remove", "prune", "branch", "postDelete"}

\* A not-found error that names the canonical path only.
notFoundCanonicalOnly(resolvedPath, possiblePath) ==
    [ok |-> FALSE, path |-> NoPath, err |-> "NotFound", tried |-> <<possiblePath>>]

\* The not-found error of delete and checkout: its message names the two
\* paths that were tried.
notFound(resolvedPath, possiblePath) ==
    [ok |-> FALSE, path |-> NoPath, err |-> "NotFound",
     tried |-> <<resolvedPath, possiblePath>>]

\* isGitRepository and getRepoRoot of a path found on disk.
located(w, p) ==
    IF ~isGitRepository(w, p)
    THEN [ok |-> FALSE, path |-> NoPath, err |-> "TargetNotARepository", tried |-> <<>>]
    ELSE LET r == getRepoRoot(w, p) IN
         IF r.ok THEN [ok |-> TRUE, path |-> r.path, err |-> "", tried |-> <<>>]
         ELSE [ok |-> FALSE, path |-> NoPath, err |-> "RepoRoot", tried |-> <<>>]

\* A lookup that tries the canonical path before the direct path.
deleteLocateCanonicalFirst(w, cwd, token) ==
    IF token = NoPath THEN located(w, cwd)
    ELSE IF pathExists(w, possiblePathOf(token)) THEN located(w, possiblePathOf(token))
    ELSE IF pathExists(w, resolve(cwd, token)) THEN located(w, resolve(cwd, token))
    ELSE notFound(resolve(cwd, token), possiblePathOf(token))

\* Lines 18-59: the target path from the token (NoPath: token omitted).
deleteLocate(w, cwd, token) ==
    LET Fail(e) == [ok |-> FALSE, path |-> NoPath, err |-> e, tried |-> <<>>]
        resolvedPath == resolve(cwd, token)
    IN  IF token = NoPath
        THEN IF ~isGitRepository(w, cwd) THEN Fail("NotARepository")
             ELSE located(w, cwd)
        ELSE IF pathExists(w, resolvedPath) THEN located(w, resolvedPath)
        ELSE IF ~isGitRepository(w, cwd) THEN Fail("NotARepository")
        ELSE LET rr == getRepoRoot(w, cwd) IN
             IF ~rr.ok THEN Fail("RepoRoot")
             ELSE LET wts == getWorktrees(w) IN
                  IF ~wts.ok THEN Fail("GetWorktrees")
                  ELSE LET mw == findMain(wts.list)
                           configPath == IF mw.found THEN mw.rec.path ELSE rr.path
                           cfg == readProjectConfig(configPath)
                           \* `../<project>__worktrees/<token>` with the raw token
                           possiblePath == possiblePathOf(token)
                       IN  IF ~cfg.present THEN Fail("NotInitialized")
                           ELSE IF pathExists(w, possiblePath) THEN located(w, possiblePath)
                           ELSE notFound(resolvedPath, possiblePath)

\* Delete steps in which a failing prune of the metadata ends the sequence.
deleteStepsPruneFatal(w, cfg, targetPath, currentBranch, force, failAt) ==
    LET pre == runHook("preDelete", cfg, failAt = "preDelete")
        rm == deleteWorktree(w, targetPath, failAt = "remove")
        br == deleteLocalBranch(pruneWorktrees(rm.w), currentBranch, force, failAt = "branch")
        e1 == IF pre.ran THEN <<Ev("hook:preDelete", targetPath, currentBranch)>> ELSE <<>>
        e2 == e1 \o <<Ev("worktreeRemove", targetPath, NoBranch)>>
    IN  IF ~pre.ok THEN [ok |-> FALSE, w |-> w, failed |-> "preDelete", events |-> <<>>]
        ELSE IF ~rm.ok THEN [ok |-> FALSE, w |-> w, failed |-> "remove", events |-> e1]
        ELSE IF failAt = "prune"
        THEN [ok |-> FALSE, w |-> rm.w, failed |-> "prune", events |-> e2]
        ELSE IF ~br.ok THEN [ok |-> FALSE, w |-> rm.w, failed |-> "branch", events |-> e2]
        ELSE [ok |-> TRUE, w |-> br.w, failed |-> "none",
              events |-> e2 \o <<Ev("worktreePrune", NoPath, NoBranch),
                                 Ev(branchDeleteOp(force), NoPath, currentBranch)>>]

\* Delete steps in which a failing hook is reported and the removal goes on.
deleteStepsHookWarns(w, cfg, targetPath, currentBranch, force, failAt) ==
    LET rm == deleteWorktree(w, targetPath, failAt = "remove")
        br == deleteLocalBranch(pruneWorktrees(rm.w), currentBranch, force, failAt = "branch")
    IN  IF ~rm.ok THEN [ok |-> FALSE, w |-> w, failed |-> "remove", events |-> <<>>]
        ELSE IF ~br.ok THEN [ok |-> FALSE, w |-> rm.w, failed |-> "branch", events |-> <<>>]
        ELSE [ok |-> TRUE, w |-> br.w, failed |-> failAt,
              events |-> <<Ev("worktreeRemove", targetPath, NoBranch),
                           Ev(branchDeleteOp(force), NoPath, currentBranch)>>]

\* Lines 142-166: the mutation steps, each of which may throw.
deleteSteps(w, cfg, targetPath, currentBranch, force, failAt) ==
    LET pre == runHook("preDelete", cfg, failAt = "preDelete")
        rm == deleteWorktree(w, targetPath, failAt = "remove")
        w2 == IF failAt = "prune" THEN rm.w ELSE pruneWorktrees(rm.w)
        br == deleteLocalBranch(w2, currentBranch, force, failAt = "branch")
        post == runHook("postDelete", cfg, failAt = "postDelete")
        e1 == IF pre.ran THEN <<Ev("hook:preDelete", targetPath, currentBranch)>> ELSE <<>>
        e2 == e1 \o <<Ev("worktreeRemove", targetPath, NoBranch)>>
        e3 == e2 \o (IF failAt = "prune" THEN <<>> ELSE <<Ev("worktreePrune", NoPath, NoBranch)>>)
        e4 == e3 \o <<Ev(branchDeleteOp(force), NoPath, currentBranch)>>
        e5 == e4 \o (IF post.ran THEN <<Ev("hook:postDelete", NoPath, currentBranch)>> ELSE <<>>)
    IN  IF ~pre.ok THEN [ok |-> FALSE, w |-> w, failed |-> "preDelete", events |-> <<>>]
        ELSE IF ~rm.ok THEN [ok |-> FALSE, w |-> w, failed |-> "remove", events |-> e1]
        ELSE IF ~br.ok THEN [ok |-> FALSE, w |-> w2, failed |-> "branch", events |-> e3]
        ELSE IF ~post.ok THEN [ok |-> FALSE, w |-> br.w, failed |-> "postDelete", events |-> e4]
        ELSE [ok |-> TRUE, w |-> br.w,
              failed |-> IF failAt = "prune" THEN "prune" ELSE "none", events |-> e5]

deleteCommand(w, cwd, token, force, failAt, confirm) ==
    LET Obs == [NoLast EXCEPT !.cmd = "delete", !.pre = w, !.cwd = cwd, !.token = token,
                              !.force = force]
        loc == deleteLocate(w, cwd, token)
        targetPath == loc.path
        currentBranch == getCurrentBranch(w, targetPath)
        ObsT == [Obs EXCEPT !.target = targetPath, !.branch = currentBranch]
        Throw(e) == [w |-> w, obs |-> [ObsT EXCEPT !.result = "error", !.err = e]]
        wts == getWorktrees(w)
        mw == findMain(wts.list)
        mainBranch == getMainBranch(w).branch
        \* the merge gate is evaluated only without force
        ObsG == [ObsT EXCEPT !.mergeTarget = IF force THEN NoTarget ELSE mergeTarget(w)]
        Return(n) == [w |-> w, obs |-> [ObsG EXCEPT !.note = n]]
        cfg == readProjectConfig(mw.rec.path)
        st == deleteSteps(w, cfg, targetPath, currentBranch, force, failAt)
    IN  IF ~loc.ok THEN [w |-> w, obs |-> [Obs EXCEPT !.result = "error", !.err = loc.err,
                                                      !.tried = loc.tried]]
        ELSE IF currentBranch = NoBranch THEN Throw("NoCurrentBranch")
        ELSE IF ~wts.ok THEN Throw("GetWorktrees")
        ELSE IF ~mw.found THEN Throw("NoMainWorktree")
        ELSE IF currentBranch = mainBranch /\ targetPath = mw.rec.path
        THEN Throw("PrimaryProtected")
        ELSE IF ~force /\ hasOrigin /\ failAt = "fetch"
        THEN [w |-> w, obs |-> [ObsT EXCEPT !.result = "error", !.err = "fetch",
                                            !.failed = "fetch"]]
        ELSE IF ~force /\ ~isBranchMerged(w, currentBranch) THEN Return("unmerged")
        ELSE IF ~cfg.present
        THEN [w |-> w, obs |-> [ObsG EXCEPT !.result = "error", !.err = "NotInitialized"]]
        ELSE IF ~force /\ ~confirm
        THEN [w |-> w, obs |-> [ObsG EXCEPT !.note = "cancelled",
                                            !.asked = promptsAsked(force)]]
        ELSE [w |-> st.w,
              obs |-> [ObsG EXCEPT !.asked = promptsAsked(force),
                                   !.result = IF st.ok THEN "ok" ELSE "error",
                                   !.err = IF st.ok THEN "" ELSE st.failed,
                                   !.failed = st.failed,
                                   !.events = st.events,
                                   !.removed = IF targetPath \in st.w.dirs
                                               THEN {} ELSE {targetPath}]]

(***************************************************************************)
(* checkout (checkoutCommand)                                              *)
(***************************************************************************)
\* String.prototype.trim and toLowerCase of a text
RECURSIVE trim(_)
trim(s) ==
    IF Len(s) > 0 /\ s[1] = " " THEN trim(Tail(s))
    ELSE IF Len(s) > 0 /\ s[Len(s)] = " " THEN trim(SubSeq(s, 1, Len(s) - 1))
    ELSE s
lowerText(s) == [i \in 1..Len(s) |-> toLowerCase(s[i])]

\* target.trim().toLowerCase(); the text of a path is no branch name here.
normalizedTarget(token) ==
    IF token.k = "rel" THEN lowerText(trim(token.n)) ELSE <<"/">> \o token.n

\* worktrees.find(w => w.branch?.toLowerCase() === normalizedTarget)
caseInsensitiveMatch(list, target) ==
    LET Hit(i) == list[i].branch # NoBranch /\ lowerText(list[i].branch) = target
    IN  IF \E i \in 1..Len(list) : Hit(i)
        THEN [found |-> TRUE,
              rec |-> list[CHOOSE i \in 1..Len(list) :
                             Hit(i) /\ \A j \in 1..(i - 1) : ~Hit(j)]]
        ELSE [found |-> FALSE, rec |-> EmptyRec]

\* checkoutCommand: the path of the workspace the token names on the output,
\* or, with create, setupCommand with the token as the feature text.
checkoutCommand(w, cwd, token, create, failAt, rb) ==
    LET Obs == [NoLast EXCEPT !.cmd = "checkout", !.pre = w, !.cwd = cwd, !.token = token,
                              !.autoCreate = create]
        Throw(e, tr) == [w |-> w, obs |-> [Obs EXCEPT !.result = "error", !.err = e,
                                                      !.tried = tr]]
        Found(l) == IF l.ok
                    THEN [w |-> w, obs |-> [Obs EXCEPT !.target = l.path, !.out = <<l.path>>]]
                    ELSE Throw(l.err, l.tried)
        resolvedPath == resolve(cwd, token)
        rr == getRepoRoot(w, cwd)
        wts == getWorktrees(w)
        mw == findMain(wts.list)
        configPath == IF mw.found THEN mw.rec.path ELSE rr.path
        cfg == readProjectConfig(configPath)
        possiblePath == possiblePathOf(token)
        m == caseInsensitiveMatch(wts.list, normalizedTarget(token))
        su == setupCommand(w, cwd, token.n, failAt, rb)
    IN  IF ~isGitRepository(w, cwd) THEN Throw("NotARepository", <<>>)
        ELSE IF pathExists(w, resolvedPath) THEN Found(located(w, resolvedPath))
        ELSE IF ~rr.ok THEN Throw("RepoRoot", <<>>)
        ELSE IF ~wts.ok THEN Throw("GetWorktrees", <<>>)
        ELSE IF ~cfg.present THEN Throw("NotInitialized", <<>>)
        ELSE IF pathExists(w, possiblePath) THEN Found(located(w, possiblePath))
        ELSE IF m.found /\ pathExists(w, m.rec.path) THEN Found(located(w, m.rec.path))
        ELSE IF create
        THEN [w |-> su.w,
              obs |-> [su.obs EXCEPT !.cmd = "checkout", !.token = token, !.autoCreate = TRUE]]
        ELSE Found(notFound(resolvedPath, possiblePath))

(***************************************************************************)
(* prune (pruneCommand)                                                    *)
(***************************************************************************)
PruneFailPoints == {"none", "prune0", "fetch", "preDelete", "remove", "prune",
                    "branch", "postDelete"}

\* A selection that does not exclude the main worktree.
pruneCandidatesWithMain(w, list) ==
    SelectSeq(list, LAMBDA wt : /\ wt.branch # NoBranch
                                /\ isBranchMerged(w, wt.branch))

\* Lines 259-275: the worktrees to prune, in list order.
pruneCandidates(w, list) ==
    SelectSeq(list, LAMBDA wt : /\ ~wt.isMain
                                /\ wt.branch # NoBranch
                                /\ isBranchMerged(w, wt.branch))

\* A loop that ends after its first worktree.
pruneLoopFirstOnly(w, cfg, prunable, i, force, failPath, failAt) ==
    IF i > Len(prunable)
    THEN [ok |-> TRUE, w |-> w, failed |-> "none", events |-> <<>>, removed |-> {}]
    ELSE LET wt == prunable[i]
             st == deleteSteps(w, cfg, wt.path, wt.branch, force,
                               IF wt.path = failPath THEN failAt ELSE "none")
         IN  [ok |-> st.ok, w |-> st.w, failed |-> st.failed, events |-> st.events,
              removed |-> IF st.ok THEN {wt.path} ELSE {}]

\* Lines 302-332: the delete steps for each prunable worktree in turn; a
\* throwing step ends the loop and the command.
RECURSIVE pruneLoop(_, _, _, _, _, _, _)
pruneLoop(w, cfg, prunable, i, force, failPath, failAt) ==
    IF i > Len(prunable)
    THEN [ok |-> TRUE, w |-> w, failed |-> "none", events |-> <<>>, removed |-> {}]
    ELSE LET wt == prunable[i]
             st == deleteSteps(w, cfg, wt.path, wt.branch, force,
                               IF wt.path = failPath THEN failAt ELSE "none")
         IN  IF ~st.ok
             THEN [ok |-> FALSE, w |-> st.w, failed |-> st.failed,
                   events |-> st.events, removed |-> {}]
             ELSE LET rest == pruneLoop(st.w, cfg, prunable, i + 1, force, failPath, failAt)
                  IN  [ok |-> rest.ok, w |-> rest.w,
                       failed |-> IF st.failed # "none" THEN st.failed ELSE rest.failed,
                       events |-> st.events \o rest.events,
                       removed |-> {wt.path} \cup rest.removed]

pruneCommand(w, cwd, force, dryRun, failPath, failAt, confirm) ==
    LET Obs == [NoLast EXCEPT !.cmd = "prune", !.pre = w, !.cwd = cwd,
                              !.force = force, !.dryRun = dryRun, !.target = failPath]
        Throw(x, e) == [w |-> x, obs |-> [Obs EXCEPT !.result = "error", !.err = e]]
        rr == getRepoRoot(w, cwd)
        \* stale metadata is pruned before listing
        w0 == IF failAt = "prune0" THEN w ELSE pruneWorktrees(w)
        ev0 == IF failAt = "prune0" THEN <<>> ELSE <<Ev("worktreePrune", NoPath, NoBranch)>>
        wts == getWorktrees(w0)
        mw == findMain(wts.list)
        cfg == readProjectConfig(mw.rec.path)
        prunable == pruneCandidates(w0, wts.list)
        paths == [i \in 1..Len(prunable) |-> prunable[i].path]
        cands == {prunable[i].path : i \in 1..Len(prunable)}
        ObsC == [Obs EXCEPT !.candidates = cands, !.events = ev0,
                            !.mergeTarget = mergeTarget(w0),
                            !.failed = IF failAt = "prune0" THEN "prune0" ELSE "none"]
        loop == pruneLoop(w0, cfg, prunable, 1, force, failPath, failAt)
    IN  IF ~isGitRepository(w, cwd) THEN Throw(w, "NotARepository")
        ELSE IF ~rr.ok THEN Throw(w, "RepoRoot")
        ELSE IF ~wts.ok THEN Throw(w0, "GetWorktrees")
        ELSE IF ~mw.found THEN Throw(w0, "NoMainWorktree")
        ELSE IF ~cfg.present THEN Throw(w0, "NotInitialized")
        ELSE IF hasOrigin /\ failAt = "fetch"
        THEN [w |-> w0, obs |-> [Obs EXCEPT !.result = "error", !.err = "fetch",
                                            !.failed = "fetch", !.events = ev0]]
        ELSE IF Len(prunable) = 0 THEN [w |-> w0, obs |-> [ObsC EXCEPT !.note = "nothing"]]
        ELSE IF dryRun THEN [w |-> w0, obs |-> [ObsC EXCEPT !.out = paths, !.note = "dryRun"]]
        ELSE IF ~force /\ ~confirm
        THEN [w |-> w0, obs |-> [ObsC EXCEPT !.note = "cancelled",
                                             !.asked = promptsAsked(force)]]
        ELSE [w |-> loop.w,
              obs |-> [ObsC EXCEPT !.asked = promptsAsked(force),
                                   !.result = IF loop.ok THEN "ok" ELSE "error",
                                   !.err = IF loop.ok THEN "" ELSE loop.failed,
                                   !.failed = IF loop.failed # "none" THEN loop.failed
                                              ELSE ObsC.failed,
                                   !.events = ev0 \o loop.events,
                                   !.note = "deleted",
                                   !.removed = loop.removed]]

(***************************************************************************)
(* Port assignment (PortService) and the commands of the revision that     *)
(* assigns ports                                                           *)
(***************************************************************************)
\* MaxCommands bounds the commands of a behaviour of PortSpec.
MaxCommands == 4

\* Ports some other process listens on (isPortInUse).
BusyPorts == {{}, {BasePort + 1}}

\* while (usedPorts.has(port) || isPortInUse(port)) port++
RECURSIVE nextFreePort(_, _, _)
nextFreePort(port, usedPorts, busy) ==
    IF port \in usedPorts \/ port \in busy
    THEN nextFreePort(port + 1, usedPorts, busy)
    ELSE port

\* A port search that always answers the base port.
getNextAvailablePortBaseOnly(state, projectId, basePort, busy) == basePort

getNextAvailablePort(state, projectId, basePort, busy) ==
    IF projectId \notin DOMAIN state THEN basePort
    ELSE LET portAssignments == state[projectId]
             usedPorts == {portAssignments[p] : p \in DOMAIN portAssignments}
         IN  nextFreePort(basePort, usedPorts, busy)

assignPort(state, projectId, worktreePath, port) ==
    IF projectId \notin DOMAIN state THEN [ok |-> FALSE, state |-> state]
    ELSE [ok |-> TRUE,
          state |-> [state EXCEPT ![projectId] =
                        [p \in DOMAIN @ \cup {worktreePath} |->
                            IF p = worktreePath THEN port ELSE @[p]]]]

releasePort(state, projectId, worktreePath) ==
    IF projectId \notin DOMAIN state THEN state
    ELSE [state EXCEPT ![projectId] = [p \in DOMAIN @ \ {worktreePath} |-> @[p]]]

cleanupOrphanedPorts(w, state, projectId) ==
    IF projectId \notin DOMAIN state THEN state
    ELSE [state EXCEPT ![projectId] = [p \in {q \in DOMAIN @ : pathExists(w, q)} |-> @[p]]]

\* initCommand: writes the configuration and the project's entry of the
\* global state, with the base port for the project directory.
initCommand(w, cwd, state) ==
    LET Obs == [NoLast EXCEPT !.cmd = "init", !.cwd = cwd]
        Refuse(e) == [ok |-> FALSE, state |-> state,
                      obs |-> [Obs EXCEPT !.result = "error", !.err = e]]
    IN  IF ~isGitRepository(w, cwd) THEN Refuse("NotARepository")
        ELSE IF readProjectConfig(cwd).present THEN Refuse("AlreadyInitialized")
        ELSE [ok |-> TRUE,
              state |-> [id \in DOMAIN state \cup {ProjectId} |->
                            IF id = ProjectId THEN [p \in {cwd} |-> BasePort]
                            ELSE state[id]],
              obs |-> Obs]

PortSetupFailPoints == {"none", "add", "copy", "hook"}

\* setupCommand of the revision that assigns ports: the worktree, its port,
\* the copied files, the postSetup hook, the clean-up of orphaned ports; the
\* catch block removes the worktree and leaves the global state as it is.
setupCommandWithPorts(w, cwd, state, feature, failAt, busy) ==
    LET cfg == readProjectConfig(cwd)
        branchName == sanitizeBranchName(feature)
        \* join(projectPath, `../${config.project}-${branchName}`)
        targetPath == Canon(branchName)
        Obs == [NoLast EXCEPT !.cmd = "create", !.cwd = cwd, !.feature = feature,
                              !.target = targetPath, !.branch = branchName]
        Refuse(e) == [w |-> w, state |-> state,
                      obs |-> [Obs EXCEPT !.result = "error", !.err = e]]
        cw == createWorktree(w, targetPath, branchName, failAt)
        port == getNextAvailablePort(state, ProjectId, BasePort, busy)
        asg == assignPort(state, ProjectId, targetPath, port)
        copyOk == ~(cfg.copyFiles /\ failAt = "copy")
        hookOk == ~("postSetup" \in cfg.hooks /\ failAt = "hook")
        failed == IF ~cw.ok THEN cw.failed
                  ELSE IF ~asg.ok THEN "assignPort"
                  ELSE IF ~copyOk THEN "copy"
                  ELSE IF ~hookOk THEN "hook"
                  ELSE "none"
        rbk == setupRollback(cw.w, targetPath, "ok")
    IN  IF ~isGitRepository(w, cwd) THEN Refuse("NotARepository")
        ELSE IF ~cfg.present THEN Refuse("NotInitialized")
        ELSE IF pathExists(w, targetPath) THEN Refuse("AlreadyExists")
        ELSE IF failed = "none"
        THEN [w |-> cw.w,
              state |-> cleanupOrphanedPorts(cw.w, asg.state, ProjectId),
              obs |-> [Obs EXCEPT !.created = TRUE, !.out = <<targetPath>>]]
        ELSE [w |-> rbk.w,
              state |-> IF cw.ok THEN asg.state ELSE state,
              obs |-> [Obs EXCEPT !.result = "error", !.err = failed, !.failed = failed,
                                  !.created = cw.created]]

PortDeleteFailPoints == {"none", "remove"}

\* deleteCommand of the revision that assigns ports: the path argument is the
\* target; after the removal of the worktree it calls
\* PortService.releasePort(targetPath, config.projectId).
deleteCommandWithPorts(w, cwd, state, token, force, failAt, confirm) ==
    LET targetPath == resolve(cwd, token)
        currentBranch == getCurrentBranch(w, targetPath)
        Obs == [NoLast EXCEPT !.cmd = "delete", !.cwd = cwd, !.token = token,
                              !.force = force, !.target = targetPath,
                              !.branch = currentBranch]
        Throw(e) == [w |-> w, state |-> state,
                     obs |-> [Obs EXCEPT !.result = "error", !.err = e]]
        wts == getWorktrees(w)
        mw == findMain(wts.list)
        mainBranch == getMainBranch(w).branch
        cfg == readProjectConfig(mw.rec.path)
        rm == deleteWorktree(w, targetPath, failAt = "remove")
    IN  IF ~pathExists(w, targetPath) THEN Throw("NotFound")
        ELSE IF ~isGitRepository(w, targetPath) THEN Throw("TargetNotARepository")
        ELSE IF currentBranch = NoBranch THEN Throw("NoCurrentBranch")
        ELSE IF ~wts.ok THEN Throw("GetWorktrees")
        ELSE IF ~mw.found THEN Throw("NoMainWorktree")
        ELSE IF currentBranch = mainBranch /\ targetPath = mw.rec.path
        THEN Throw("PrimaryProtected")
        ELSE IF ~cfg.present THEN Throw("NotInitialized")
        ELSE IF ~force /\ ~confirm
        THEN [w |-> w, state |-> state, obs |-> [Obs EXCEPT !.note = "cancelled"]]
        ELSE IF ~rm.ok
        THEN [w |-> w, state |-> state,
              obs |-> [Obs EXCEPT !.result = "error", !.err = "remove", !.failed = "remove"]]
        ELSE [w |-> rm.w,
              state |-> releasePort(state, targetPath, ProjectId),
              obs |-> [Obs EXCEPT !.removed = {targetPath}]]

(***************************************************************************)
(* Specification                                                           *)
(***************************************************************************)
\* A behaviour builds a repository by commands and git operations and then
\* observes one command: `last` holds what that command did (its inputs, the
\* repository before it, its result, the calls it made, its output).  The
\* commands before it leave no observation.
Ready == steps < MaxSteps /\ last.cmd = "none"

Commit(r) ==
    /\ dirs' = r.w.dirs
    /\ linked' = r.w.linked
    /\ head' = r.w.head
    /\ dirty' = r.w.dirty
    /\ branches' = r.w.branches
    /\ merged' = r.w.merged
    /\ \E observe \in BOOLEAN : last' = IF observe THEN r.obs ELSE NoLast
    /\ steps' = steps + 1
    /\ UNCHANGED envVars

\* Directories a command can be started in.
Cwds == {Root} \cup {p \in CanonPaths : p \in dirs}

\* The environments explored: plain and bare repositories, with and without
\* a remote, with the configuration init writes, a full one, and none.
Env(b, o, r, m, c) ==
    [bare |-> b, hasOrigin |-> o, remoteBranches |-> r, manifest |-> m, config |-> c]
Environments ==
    { Env(FALSE, FALSE, {}, TRUE, FullConfig),
      Env(FALSE, TRUE, {FB}, TRUE, FullConfig),
      Env(TRUE, FALSE, {}, TRUE, FullConfig),
      Env(TRUE, TRUE, {FB}, FALSE, InitConfig),
      Env(FALSE, FALSE, {}, FALSE, InitConfig),
      Env(FALSE, TRUE, {}, TRUE, InitConfig),
      Env(FALSE, FALSE, {}, TRUE, NoConfig) }

Init ==
    /\ \E e \in Environments :
          /\ bare = e.bare
          /\ hasOrigin = e.hasOrigin
          /\ remoteBranches = e.remoteBranches
          /\ manifest = e.manifest
          /\ config = e.config
    /\ dirs = {Root}
    /\ linked = {}
    /\ head = [p \in WtPaths |-> IF p = Root /\ ~bare THEN Main ELSE NoBranch]
    /\ dirty = {}
    /\ branches = {Main}
    /\ merged = {Main}
    /\ globalState = NoGlobalState
    /\ last = NoLast
    /\ steps = 0

Setup ==
    /\ Ready
    /\ \E cwd \in Cwds, feature \in Features,
          failAt \in SetupFailPoints, rb \in RollbackOutcomes :
          \E r \in {setupCommand(World, cwd, feature, failAt, rb)} :
          \* only outcomes in which the chosen failure is the one that happened
          /\ (failAt # "none" => r.obs.failed = failAt)
          /\ (rb # "ok" => r.obs.failed \in {"upstream", "copy", "symlink", "hook"})
          /\ Commit(r)

\* Tokens of delete and checkout: omitted, the path of a directory (a
\* worktree, a plain directory, a subdirectory of a worktree), or a name or
\* feature text.
NameTokens == {Rel(n) : n \in Names \cup Features \cup {<<"F", "A">>}}
Tokens == {NoPath, Root, WRoot} \cup CanonPaths \cup SubPaths \cup NameTokens

\* force, confirmation and the failing call of one delete or prune
Oracles(points) ==
    {o \in [force : BOOLEAN, confirm : BOOLEAN, failAt : points] :
        /\ (o.force => o.confirm /\ o.failAt # "fetch")
        /\ (~o.confirm => o.failAt \in {"none", "fetch", "prune0"})}
DeleteOracles == Oracles(DeleteFailPoints)
PruneOracles == Oracles(PruneFailPoints)

Delete ==
    /\ Ready
    /\ \E cwd \in Cwds, token \in Tokens, o \in DeleteOracles :
          \E r \in {deleteCommand(World, cwd, token, o.force, o.failAt, o.confirm)} :
          /\ (o.failAt # "none" => r.obs.failed = o.failAt)
          /\ (~o.force /\ ~o.confirm /\ o.failAt = "none" => r.obs.note = "cancelled")
          /\ Commit(r)

Prune ==
    /\ Ready
    /\ \E cwd \in Cwds, dryRun \in BOOLEAN, failPath \in CanonPaths \cup {NoPath},
          o \in PruneOracles :
          \E r \in {pruneCommand(World, cwd, o.force, dryRun, failPath, o.failAt, o.confirm)} :
          /\ (o.failAt # "none" => r.obs.failed = o.failAt)
          /\ (o.failAt \in {"none", "prune0", "fetch"} <=> failPath = NoPath)
          /\ (~o.force /\ ~o.confirm /\ o.failAt = "none" => r.obs.note = "cancelled")
          /\ Commit(r)

CheckoutFailPoints == {"none", "copy"}

Checkout ==
    /\ Ready
    /\ \E cwd \in Cwds, token \in Tokens \ {NoPath}, create \in BOOLEAN,
          failAt \in CheckoutFailPoints :
          \E r \in {checkoutCommand(World, cwd, token, create, failAt, "ok")} :
          /\ (create => token \in NameTokens)
          /\ (failAt # "none" => r.obs.failed = failAt)
          /\ Commit(r)

(***************************************************************************)
(* Git operations of the user between commands                             *)
(***************************************************************************)
External(w) ==
    /\ Ready
    /\ Commit([w |-> w, obs |-> NoLast])

OnDisk == (IF bare THEN {} ELSE {Root}) \cup (linked \cap dirs)

\* git checkout [-b] <branch> inside a worktree
ExtSwitch ==
    \E p \in OnDisk, b \in Names :
        /\ ~CheckedOut(World, b)
        /\ External([World EXCEPT
              !.head = [q \in WtPaths |-> IF q = p THEN b ELSE head[q]],
              !.branches = @ \cup {b},
              !.merged = IF b \in branches THEN @
                         ELSE IF head[p] \in merged THEN @ \cup {b} ELSE @ \ {b}])

\* git checkout --detach inside a linked worktree
ExtDetach ==
    \E p \in linked \cap dirs :
        /\ head[p] # NoBranch
        /\ External([World EXCEPT
              !.head = [q \in WtPaths |-> IF q = p THEN NoBranch ELSE head[q]]])

\* a commit on a feature branch: its tip is no longer an ancestor of the target
ExtCommit ==
    \E p \in linked \cap dirs :
        /\ head[p] \in merged \ {Main}
        /\ External([World EXCEPT !.merged = @ \ {head[p]}])

\* the branch is merged into the default branch
ExtMerge ==
    \E b \in branches \ merged :
        External([World EXCEPT !.merged = @ \cup {b}])

\* rm -rf of a worktree directory: its registration goes stale
ExtRemoveDir ==
    \E p \in linked \cap dirs :
        External([World EXCEPT !.dirs = @ \ {p}, !.dirty = @ \ {p}])

\* git worktree add <root>/fb <branch>
ExtAddNested ==
    \E b \in Names :
        \E r \in {createWorktree(World, Nested, b, "none")} :
            r.ok /\ External(r.w)

\* an untracked or modified file in a worktree
ExtDirty ==
    \E p \in (linked \cap dirs) \ dirty :
        External([World EXCEPT !.dirty = @ \cup {p}])

Next ==
    \/ Setup
    \/ Delete
    \/ Prune
    \/ Checkout
    \/ ExtSwitch
    \/ ExtDetach
    \/ ExtCommit
    \/ ExtMerge
    \/ ExtRemoveDir
    \/ ExtDirty
    \/ ExtAddNested

Spec == Init /\ [][Next]_vars

(***************************************************************************)
(* sanitizeBranchName on its own: a feature text is sanitized, and the     *)
(* result is sanitized again                                               *)
(***************************************************************************)
SanitizeInit ==
    /\ bare = FALSE
    /\ hasOrigin = FALSE
    /\ remoteBranches = {}
    /\ manifest = FALSE
    /\ config = NoConfig
    /\ dirs = {Root}
    /\ linked = {}
    /\ head = [p \in WtPaths |-> IF p = Root THEN Main ELSE NoBranch]
    /\ dirty = {}
    /\ branches = {Main}
    /\ merged = {Main}
    /\ globalState = NoGlobalState
    /\ \E f \in FeatureTexts : last = [NoLast EXCEPT !.feature = f]
    /\ steps = 0

\* const branchName = GitService.sanitizeBranchName(feature)
Sanitize ==
    /\ last.cmd = "none"
    /\ last' = [last EXCEPT !.cmd = "sanitize",
                            !.branch = sanitizeBranchName(last.feature)]
    /\ steps' = steps + 1
    /\ UNCHANGED <<repoVars, envVars>>

\* sanitizeBranchName of a branch name that came out of it
Resanitize ==
    /\ last.cmd = "sanitize"
    /\ last' = [last EXCEPT !.cmd = "resanitize",
                            !.out = <<sanitizeBranchName(last.branch)>>]
    /\ steps' = steps + 1
    /\ UNCHANGED <<repoVars, envVars>>

SanitizeNext ==
    \/ Sanitize
    \/ Resanitize

SanitizeSpec == SanitizeInit /\ [][SanitizeNext]_vars

(***************************************************************************)
(* create with the primary output stream: what log.stdout writes, and what *)
(* the hook command writes to the stream it inherits                       *)
(***************************************************************************)
\* Output of a hook command on the primary output stream.
HookOutput == [k |-> "hookOutput", n |-> <<>>]

\* The primary output stream after a create: the hook command runs without
\* its output captured, so what it prints goes to the stream of the caller
\* before anything log.stdout writes.
primaryOutput(obs, prints) ==
    (IF prints /\ \E i \in 1..Len(obs.events) : obs.events[i].op = "hook:postSetup"
     THEN <<HookOutput>> ELSE <<>>) \o obs.out

StreamSetup ==
    /\ Ready
    /\ \E cwd \in Cwds, feature \in Features, prints \in BOOLEAN,
          failAt \in SetupFailPoints, rb \in RollbackOutcomes :
          \E r \in {setupCommand(World, cwd, feature, failAt, rb)} :
          /\ (failAt # "none" => r.obs.failed = failAt)
          /\ (rb # "ok" => r.obs.failed \in {"upstream", "copy", "symlink", "hook"})
          /\ Commit([r EXCEPT !.obs.out = primaryOutput(r.obs, prints)])

StreamSpec == Init /\ [][StreamSetup]_vars

(***************************************************************************)
(* Two create invocations for one feature name on one repository.  Each    *)
(* await of setupCommand is a step; the steps of the two invocations        *)
(* interleave, and a git command is one step.  `last` holds the position of *)
(* each invocation, the invocation whose `git worktree add` made the        *)
(* directory now at the target path (owner, 0 for none), and for each       *)
(* invocation the owner of the directory its catch block removed.           *)
(***************************************************************************)
Procs == {1, 2}

ConcInit ==
    /\ \E e \in {x \in Environments : x.config.present} :
          /\ bare = e.bare
          /\ hasOrigin = e.hasOrigin
          /\ remoteBranches = e.remoteBranches
          /\ manifest = e.manifest
          /\ config = e.config
    /\ dirs = {Root}
    /\ linked = {}
    /\ head = [p \in WtPaths |-> IF p = Root /\ ~bare THEN Main ELSE NoBranch]
    /\ dirty = {}
    /\ branches = {Main}
    /\ merged = {Main}
    /\ globalState = NoGlobalState
    /\ \E f \in {FA, FB} :
          last = [cmd |-> "concurrent", feature |-> f,
                  branch |-> sanitizeBranchName(f),
                  target |-> Canon(sanitizeBranchName(f)),
                  pc |-> [p \in Procs |-> "check"],
                  owner |-> 0,
                  removedOwner |-> [p \in Procs |-> 0],
                  out |-> <<>>]
    /\ steps = 0

\* Lines 113-116: the target path is looked up before the try block.
CheckExists(p) ==
    /\ last.pc[p] = "check"
    /\ last' = [last EXCEPT !.pc[p] = IF pathExists(World, last.target)
                                      THEN "failed" ELSE "add"]
    /\ UNCHANGED <<repoVars, envVars, steps>>

\* Lines 120-121: createDirectory(worktreeRoot) and createWorktree.
AddWorktree(p) ==
    /\ last.pc[p] = "add"
    /\ \E failAt \in {"none", "add", "upstream"} :
          \E cw \in {createWorktree([World EXCEPT !.dirs = @ \cup {WRoot}],
                                    last.target, last.branch, failAt)} :
          /\ failAt # "none" => cw.failed = failAt
          /\ dirs' = cw.w.dirs
          /\ linked' = cw.w.linked
          /\ head' = cw.w.head
          /\ dirty' = cw.w.dirty
          /\ branches' = cw.w.branches
          /\ merged' = cw.w.merged
          /\ last' = [last EXCEPT !.pc[p] = IF cw.ok THEN "sync" ELSE "catch",
                                  !.owner = IF cw.created THEN p ELSE @]
    /\ UNCHANGED <<envVars, steps>>

\* Lines 123-141: file sync and the postSetup hook, then the path on the
\* primary output stream; any of the calls may throw.
SyncAndHook(p) ==
    /\ last.pc[p] = "sync"
    /\ \E fail \in BOOLEAN :
          last' = [last EXCEPT !.pc[p] = IF fail THEN "catch" ELSE "done",
                               !.out = IF fail THEN @ ELSE Append(@, p)]
    /\ UNCHANGED <<repoVars, envVars, steps>>

\* Lines 147-158: the catch block removes whatever is at the target path.
Rollback(p) ==
    /\ last.pc[p] = "catch"
    /\ \E rb \in RollbackOutcomes :
          \E r \in {setupRollback(World, last.target, rb)} :
          LET removed == last.target \in dirs /\ last.target \notin r.w.dirs IN
          /\ dirs' = r.w.dirs
          /\ linked' = r.w.linked
          /\ head' = r.w.head
          /\ dirty' = r.w.dirty
          /\ branches' = r.w.branches
          /\ merged' = r.w.merged
          /\ last' = [last EXCEPT !.pc[p] = "failed",
                                  !.removedOwner[p] = IF removed THEN last.owner ELSE @,
                                  !.owner = IF removed THEN 0 ELSE @]
    /\ UNCHANGED <<envVars, steps>>

ConcurrentSpec ==
    ConcInit /\ [][\E p \in Procs : \/ CheckExists(p)
                                     \/ AddWorktree(p)
                                     \/ SyncAndHook(p)
                                     \/ Rollback(p)]_vars

(***************************************************************************)
(* getWorktrees on its own: a status dump is parsed into records            *)
(***************************************************************************)
\* MaxLines bounds the lines of a dump.
MaxLines == 4

\* The lines `git worktree list --porcelain` prints; a commit id is stood for
\* by a short text.
WorktreeLines == {Line("worktree", Canon(FA)), Line("worktree", Canon(FB))}
FieldLines == {Line("HEAD", FA), Line("HEAD", FB), Line("branch", FA),
               Line("branch", FB), Line("bare", <<>>), Line("detached", <<>>)}

\* The line sequences of at most n lines.
RECURSIVE LineSeqs(_)
LineSeqs(n) ==
    IF n = 0 THEN {<<>>}
    ELSE LET shorter == LineSeqs(n - 1)
         IN  shorter \cup {Append(d, l) : d \in shorter, l \in WorktreeLines \cup FieldLines}

\* The dumps: every block starts with a worktree line.
Dumps == {d \in LineSeqs(MaxLines) : d # <<>> => d[1] \in WorktreeLines}

ParseInit ==
    /\ bare = FALSE
    /\ hasOrigin = FALSE
    /\ remoteBranches = {}
    /\ manifest = FALSE
    /\ config = NoConfig
    /\ dirs = {Root}
    /\ linked = {}
    /\ head = [p \in WtPaths |-> IF p = Root THEN Main ELSE NoBranch]
    /\ dirty = {}
    /\ branches = {Main}
    /\ merged = {Main}
    /\ globalState = NoGlobalState
    /\ \E d \in Dumps : last = [NoLast EXCEPT !.cmd = "dump", !.tried = d]
    /\ steps = 0

\* GitService.getWorktrees on the dump: the records, then the main marking.
ListWorkspaces ==
    /\ last.cmd = "dump"
    /\ LET parsed == ParseLines(last.tried, 1, <<>>, EmptyRec)
       IN  last' = [last EXCEPT !.cmd = "list",
                                !.out = [i \in 1..Len(parsed) |-> MarkMain(parsed[i], Main)]]
    /\ steps' = steps + 1
    /\ UNCHANGED <<repoVars, envVars>>

ParseSpec == ParseInit /\ [][ListWorkspaces]_vars

(***************************************************************************)
(* The hook runner on its own: a hook name, a command text and a target     *)
(* directory with or without a package manifest                             *)
(***************************************************************************)
\* MaxWords bounds the words and whitespace characters of a command.
MaxWords == 4

HookNames == {"postSetup", "preDelete", "postDelete"}

\* The command texts of at most n words and whitespace characters; the empty
\* text stands for a hook without a command.
RECURSIVE HookCommands(_)
HookCommands(n) ==
    IF n = 0 THEN {<<>>}
    ELSE LET shorter == HookCommands(n - 1)
         IN  shorter \cup {Append(c, a) : c \in shorter,
                           a \in {"bun", "npm", "pnpm", "yarn", "install", " ", "\t"}}

HookInit ==
    /\ bare = FALSE
    /\ hasOrigin = FALSE
    /\ remoteBranches = {}
    /\ manifest \in BOOLEAN
    /\ config = NoConfig
    /\ dirs = {Root}
    /\ linked = {}
    /\ head = [p \in WtPaths |-> IF p = Root THEN Main ELSE NoBranch]
    /\ dirty = {}
    /\ branches = {Main}
    /\ merged = {Main}
    /\ globalState = NoGlobalState
    /\ \E h \in HookNames, c \in HookCommands(MaxWords) :
          last = [NoLast EXCEPT !.cmd = "hook", !.note = h, !.feature = c]
    /\ steps = 0

\* HookService.runHook(hookName, config, context)
RunHook ==
    /\ last.cmd = "hook"
    /\ last' = [last EXCEPT !.cmd = "hookDone",
                            !.out = IF runHookCommand(last.note, last.feature, manifest)
                                    THEN <<last.feature>> ELSE <<>>]
    /\ steps' = steps + 1
    /\ UNCHANGED <<repoVars, envVars>>

HookSpec == HookInit /\ [][RunHook]_vars

(***************************************************************************)
(* The revision that assigns ports: init, setup and delete on one project  *)
(***************************************************************************)
PortInitState ==
    /\ bare = FALSE
    /\ hasOrigin = FALSE
    /\ remoteBranches = {}
    /\ manifest = TRUE
    /\ config = NoConfig
    /\ dirs = {Root}
    /\ linked = {}
    /\ head = [p \in WtPaths |-> IF p = Root THEN Main ELSE NoBranch]
    /\ dirty = {}
    /\ branches = {Main}
    /\ merged = {Main}
    /\ globalState = NoGlobalState
    /\ last = NoLast
    /\ steps = 0

PortCommit(r) ==
    /\ dirs' = r.w.dirs
    /\ linked' = r.w.linked
    /\ head' = r.w.head
    /\ dirty' = r.w.dirty
    /\ branches' = r.w.branches
    /\ merged' = r.w.merged
    /\ globalState' = r.state
    /\ last' = r.obs
    /\ steps' = steps + 1
    /\ UNCHANGED <<bare, hasOrigin, remoteBranches, manifest>>

PortInit ==
    /\ steps < MaxCommands
    /\ \E r \in {initCommand(World, Root, globalState)} :
          /\ config' = IF r.ok THEN InitConfig ELSE config
          /\ PortCommit([w |-> World, state |-> r.state, obs |-> r.obs])

PortSetup ==
    /\ steps < MaxCommands
    /\ \E cwd \in Cwds, feature \in Features, failAt \in PortSetupFailPoints,
          busy \in BusyPorts :
          \E r \in {setupCommandWithPorts(World, cwd, globalState, feature, failAt, busy)} :
          /\ (failAt # "none" => r.obs.failed = failAt)
          /\ UNCHANGED config
          /\ PortCommit(r)

PortDelete ==
    /\ steps < MaxCommands
    /\ \E cwd \in Cwds, token \in {Root} \cup CanonPaths, force \in BOOLEAN,
          failAt \in PortDeleteFailPoints, confirm \in BOOLEAN :
          \E r \in {deleteCommandWithPorts(World, cwd, globalState, token, force,
                                            failAt, confirm)} :
          /\ (force => confirm)
          /\ (failAt # "none" => r.obs.failed = failAt)
          /\ UNCHANGED config
          /\ PortCommit(r)

PortNext ==
    \/ PortInit
    \/ PortSetup
    \/ PortDelete

PortSpec == PortInitState /\ [][PortNext]_vars

(***************************************************************************)
(* Properties                                                              *)
(***************************************************************************)
\* The records listWorkspaces returns in repository w.
Listed(w) == LET l == getWorktrees(w) IN {l.list[i] : i \in 1..Len(l.list)}
IsPrimaryIn(w, p) == \E rec \in Listed(w) : rec.path = p /\ rec.isMain
HasOp(events, op) == \E i \in 1..Len(events) : events[i].op = op

\* C1: a delete whose located target is a workspace that listWorkspaces marks
\* primary fails with an error, runs no hook, removes no workspace and deletes
\* no branch.
C1_PrimaryNeverDeleted ==
    (last.cmd = "delete" /\ last.target # NoPath /\ IsPrimaryIn(last.pre, last.target))
        => (last.result = "error" /\ last.events = <<>> /\ World = last.pre)

\* C2: a non-forced delete of a workspace whose branch is not merged into the
\* merge target returns normally and mutates nothing; the workspace is still
\* listed afterwards.
C2_UnmergedDeleteAborts ==
    (/\ last.cmd = "delete" /\ ~last.force
     /\ last.target # NoPath /\ last.branch # NoBranch
     /\ ~isBranchMerged(last.pre, last.branch))
        => (/\ last.result = "ok"
            /\ last.events = <<>>
            /\ World = last.pre
            /\ \E rec \in Listed(World) : rec.path = last.target)

\* C3 as stated: whenever listWorkspaces returns a list, exactly one of its
\* records is primary.
PrimaryRecords(w) == {rec \in Listed(w) : rec.isMain}
DefaultBranchHolders(w) ==
    {p \in (IF bare THEN {} ELSE {Root}) \cup w.linked : w.head[p] = getMainBranch(w).branch}

C4_CreateIdempotent ==
    (last.cmd = "create" /\ last.result = "ok")
        => LET again == setupCommand(World, last.cwd, last.feature, "none", "ok")
           IN  /\ again.obs.result = "ok"
               /\ again.obs.out = last.out
               /\ again.obs.events = <<>>
               /\ again.w = World

\* A create that failed at one of the steps after the workspace was created.
FailedAfterCreation(steps_) ==
    /\ last.cmd = "create"
    /\ last.result = "error"
    /\ last.created
    /\ last.failed \in steps_

C6_NoDanglingBranch ==
    (FailedAfterCreation({"copy", "symlink"}) /\ last.newBranch)
        => (last.branch \in branches => CheckedOut(World, last.branch))

\* C6 amended: the rollback of a create that fails at the file-sync step ends at
\* the workspace: it makes no attempt to delete a branch, and the branch this
\* call created remains in the repository; it is left without any workspace
\* when git removed the workspace.
C6_RollbackKeepsBranch ==
    (FailedAfterCreation({"copy", "symlink"}) /\ last.newBranch) =>
        /\ last.branch \notin last.pre.branches
        /\ last.branch \in branches
        /\ \A f \in BOOLEAN : ~HasOp(last.events, branchDeleteOp(f))
        /\ (HasOp(last.events, "worktreeRemove") => ~CheckedOut(World, last.branch))

\* A create made a new branch, failed at the symlink step and git removed the
\* workspace: the branch is there and no workspace has it.
C6_BranchLeftBehind ==
    /\ FailedAfterCreation({"symlink"})
    /\ last.newBranch
    /\ HasOp(last.events, "worktreeRemove")
    /\ last.branch \in branches
    /\ ~CheckedOut(World, last.branch)

\* C7: when create fails after the workspace was created and the rollback
\* fails too (the workspace directory is still there), the error create raises
\* is the error of the step that failed.
C7_RollbackFailureKeepsOriginalError ==
    (FailedAfterCreation(SetupFailPoints) /\ last.target \in dirs)
        => last.err = last.failed

\* The repository prune lists: stale registrations are pruned first, unless
\* that call failed.
ListedByPrune == IF last.failed = "prune0" THEN last.pre ELSE pruneWorktrees(last.pre)

\* C8: whenever prune reaches its selection, the candidates are exactly the
\* listed workspaces that are not primary, have a branch, and whose branch is
\* merged into the default branch; a detached workspace is never a candidate.
C8_PruneCandidatesExact ==
    (last.cmd = "prune" /\ last.note # "") =>
        /\ last.candidates =
              {p \in WtPaths : /\ \E rec \in Listed(ListedByPrune) : rec.path = p
                               /\ ~IsPrimaryIn(ListedByPrune, p)
                               /\ ListedByPrune.head[p] # NoBranch
                               /\ isBranchMerged(ListedByPrune, ListedByPrune.head[p])}
        /\ \A p \in last.candidates : last.pre.head[p] # NoBranch

\* A prune that selected some workspace and left out a workspace whose branch
\* is not merged.
C8_SelectedSomeNotAll ==
    /\ last.cmd = "prune"
    /\ last.candidates # {}
    /\ \E p \in last.pre.linked \ last.candidates :
          /\ last.pre.head[p] # NoBranch
          /\ ~isBranchMerged(last.pre, last.pre.head[p])

\* C9: a prune with dryRun leaves the repository as it found it, the metadata
\* of registered worktrees included.
C9_DryRunMutatesNothing ==
    (last.cmd = "prune" /\ last.dryRun) => World = last.pre

\* C10: in a prune over several candidates in which the delete steps of one
\* candidate fail, every other candidate that git can remove is removed.
C10_PruneContinuesPastFailure ==
    (/\ last.cmd = "prune"
     /\ last.note = "deleted"
     /\ last.target \in last.candidates
     /\ last.failed \in {"preDelete", "remove", "branch", "postDelete"})
        => \A p \in last.candidates \ {last.target} :
              (p \in last.pre.linked /\ p \in last.pre.dirs /\ p \notin last.pre.dirty)
                  => p \in last.removed

\* The workspaces of w with a working directory on disk.
Workspaces(w) == (IF bare THEN {} ELSE {Root}) \cup (w.linked \cap w.dirs)

\* What checkout without create answers for the token of the observed command.
ResolveOf(w, cwd, token) == checkoutCommand(w, cwd, token, FALSE, "none", "ok").obs

\* C11: delete locates a target for a token exactly when checkout without
\* create resolves the token, and then both name the same path.
C11_DeleteLocatesAsCheckoutResolves ==
    (last.cmd = "delete" /\ last.token # NoPath) =>
        LET co == ResolveOf(last.pre, last.cwd, last.token)
        IN  /\ (last.target # NoPath) <=> (co.result = "ok")
            /\ (last.target # NoPath) => co.out = <<last.target>>

C13_DirectStepOnlyMatchesWorkspaces ==
    (/\ last.cmd \in {"delete", "checkout"}
     /\ last.token # NoPath
     /\ pathExists(last.pre, resolve(last.cwd, last.token))
     /\ resolve(last.cwd, last.token) \notin WtPaths)
        => /\ last.target = NoPath
           /\ last.err # "TargetNotARepository"

\* C14: after a successful create(f), checkout without create and delete with
\* the token f locate the path create printed.
C14_CanonicalPathUsesSanitize ==
    (last.cmd = "create" /\ last.result = "ok") =>
        /\ ResolveOf(World, last.cwd, Rel(last.feature)).out = last.out
        /\ deleteLocate(World, last.cwd, Rel(last.feature)).path = last.target

\* C15: a not-found error of delete or checkout names the two paths tried: the
\* token resolved against the current directory and the canonical path; neither
\* exists.
C15_NotFoundNamesBothPaths ==
    (last.cmd \in {"delete", "checkout"} /\ last.err = "NotFound") =>
        /\ last.tried = <<resolve(last.cwd, last.token), possiblePathOf(last.token)>>
        /\ \A i \in 1..Len(last.tried) : ~pathExists(last.pre, last.tried[i])

\* A delete by name failed with not-found and named two different paths.
C15_DeleteNotFound ==
    /\ last.cmd = "delete"
    /\ last.err = "NotFound"
    /\ Len(last.tried) = 2
    /\ last.tried[1] # last.tried[2]

\* The workspaces whose branch differs from the token in letter case only.
CaseOnlyMatches(w, token) ==
    {p \in Workspaces(w) : /\ token.k = "rel"
                           /\ w.head[p] # NoBranch
                           /\ w.head[p] # token.n
                           /\ lowerText(w.head[p]) = lowerText(token.n)}

\* C16: in an initialised repository with a working tree in its root, a
\* checkout whose token differs only in letter case from the branch of a
\* workspace on disk prints that workspace's path and creates nothing.
C16_CaseOnlyMismatchResolves ==
    (/\ last.cmd = "checkout"
     /\ config.present
     /\ ~bare
     /\ CaseOnlyMatches(last.pre, last.token) # {}) =>
        /\ last.result = "ok"
        /\ \E p \in CaseOnlyMatches(last.pre, last.token) : last.out = <<p>>
        /\ World = last.pre

\* C17: a fetch that fails does not make delete or prune fail.
C17_FetchFailureNotFatal ==
    (last.cmd \in {"delete", "prune"} /\ last.failed = "fetch") => last.result # "error"

\* C18: a delete without token that removed the workspace of the current
\* directory prints the path of the primary workspace.
C18_DeleteEmitsPrimaryPath ==
    (/\ last.cmd = "delete"
     /\ last.result = "ok"
     /\ last.token = NoPath
     /\ last.target = last.cwd
     /\ last.target \in last.removed)
        => \E rec \in PrimaryRecords(last.pre) : last.out = <<rec.path>>

\* C19: a forced delete that returns normally consulted neither the merge gate
\* nor the confirmation, removed the target directory and deleted the branch
\* with -D, merged or not; a delete that is not forced deletes the branch with
\* -d, and only a merged one.
C19_ForceDeletesWorkspaceAndBranch ==
    /\ (last.cmd = "delete" /\ last.force /\ last.result = "ok") =>
          /\ last.note = ""
          /\ last.target \notin dirs
          /\ last.branch \in last.pre.branches \ branches
          /\ HasOp(last.events, branchDeleteOp(TRUE))
          /\ ~HasOp(last.events, branchDeleteOp(FALSE))
    /\ (last.cmd = "delete" /\ ~last.force) =>
          /\ ~HasOp(last.events, branchDeleteOp(TRUE))
          /\ (HasOp(last.events, branchDeleteOp(FALSE)) =>
                 isBranchMerged(last.pre, last.branch))

\* A forced delete removed a workspace whose branch was not merged.
C19_ForcedUnmerged ==
    /\ last.cmd = "delete"
    /\ last.force
    /\ last.result = "ok"
    /\ ~isBranchMerged(last.pre, last.branch)
    /\ last.target \notin dirs
    /\ last.branch \notin branches

\* C20: a forced delete of a workspace with uncommitted or untracked changes,
\* in which no hook and no other call fails, succeeds and leaves neither the
\* directory nor the branch.
C20_ForceDeletesDirtyWorkspace ==
    (/\ last.cmd = "delete"
     /\ last.force
     /\ last.target \in last.pre.dirty
     /\ last.failed \in {"none", "remove"}
     /\ last.err \in {"", "remove"})
        => /\ last.result = "ok"
           /\ last.target \notin dirs
           /\ last.branch \notin branches

\* C21: a delete that is not forced, of a workspace with uncommitted changes
\* that is not the primary one, whose branch is merged and whose removal the
\* user confirms, goes through the removal of the workspace and the deletion
\* of the branch when no call is made to fail.
C21_DirtyDeleteProceeds ==
    (/\ last.cmd = "delete"
     /\ ~last.force
     /\ last.target \in last.pre.dirty
     /\ last.note = ""
     /\ last.failed \in {"none", "remove"}
     /\ last.err \in {"", "remove"})
        => LET r == deleteCommand(last.pre, last.cwd, last.token, FALSE, "none", TRUE)
           IN  /\ r.obs.result = "ok"
               /\ HasOp(r.obs.events, "worktreeRemove")
               /\ HasOp(r.obs.events, branchDeleteOp(FALSE))
               /\ last.target \notin r.w.dirs

\* C22: a failing preDelete hook makes delete, and prune at that workspace,
\* end with the error of the hook, with the workspace and its branch still
\* there; a failing postSetup hook makes create end with an error after its
\* rollback ran.
C22_HookFailureIsFatal ==
    /\ (last.cmd = "delete" /\ last.failed = "preDelete") =>
          /\ last.result = "error"
          /\ last.err = "preDelete"
          /\ World = last.pre
    /\ (last.cmd = "prune" /\ last.failed = "preDelete") =>
          /\ last.result = "error"
          /\ last.err = "preDelete"
          /\ last.target \in dirs \cap linked
          /\ head[last.target] = last.pre.head[last.target]
          /\ head[last.target] \in branches
    /\ (last.cmd = "create" /\ last.failed = "hook") =>
          /\ last.result = "error"
          /\ \/ HasOp(last.events, "worktreeRemove")
             \/ HasOp(last.events, "deleteDirectory")
             \/ last.err = "deleteDirectory"

\* A delete stopped by its preDelete hook left the workspace and the branch.
C22_PreDeleteHookFailed ==
    /\ last.cmd = "delete"
    /\ last.failed = "preDelete"
    /\ last.result = "error"
    /\ last.target \in dirs
    /\ last.branch \in branches

\* The `git worktree add` calls of the observed command.
WorktreeAdds ==
    SelectSeq(last.events, LAMBDA e : e.op \in {"worktreeAdd:local", "worktreeAdd:remote",
                                                "worktreeAdd:new"})

\* C23: a create that made its workspace ran one `git worktree add`: on the
\* existing local branch when there is one, whether or not origin has the
\* branch; else with a new branch from the branch of origin when origin has
\* it; else with a fresh branch.
C23_CreatePriority ==
    (last.cmd = "create" /\ last.created) =>
        /\ Len(WorktreeAdds) = 1
        /\ WorktreeAdds[1].path = last.target
        /\ WorktreeAdds[1].branch = last.branch
        /\ WorktreeAdds[1].op =
              (IF last.branch \in last.pre.branches THEN "worktreeAdd:local"
               ELSE IF last.branch \in remoteBranches THEN "worktreeAdd:remote"
               ELSE "worktreeAdd:new")
        /\ last.newBranch = (last.branch \notin last.pre.branches)

\* A create that took the local branch although origin has one of that name.
C23_LocalPreferredToRemote ==
    /\ last.cmd = "create"
    /\ last.created
    /\ last.branch \in last.pre.branches
    /\ last.branch \in remoteBranches
    /\ HasOp(last.events, "worktreeAdd:local")

\* [a-z0-9-] only, no dash at either end, no two dashes in a row
IsCleanName(s) ==
    /\ \A i \in 1..Len(s) : IsBranchChar(s[i])
    /\ Len(s) > 0 => (s[1] # "-" /\ s[Len(s)] # "-")
    /\ \A i \in 1..(Len(s) - 1) : ~(s[i] = "-" /\ s[i + 1] = "-")

C25_EmptyNameRejectedBeforeUse ==
    (last.cmd = "create" /\ sanitizeBranchName(last.feature) = <<>>) =>
        /\ last.result = "error"
        /\ last.events = <<>>
        /\ ~last.created
        /\ World = last.pre

NoResolverMatch(w, cwd, token) ==
    /\ token.k = "rel"
    /\ ~pathExists(w, resolve(cwd, token))
    /\ ~pathExists(w, Canon(sanitizeBranchName(token.n)))
    /\ \A p \in Workspaces(w) :
          w.head[p] = NoBranch \/ lowerText(w.head[p]) # lowerText(trim(token.n))

\* C27: in an initialised repository with a working tree in its root, for a
\* name token that no resolver step matches and that sanitizes to a name: a
\* checkout with create in which no call is made to fail leaves the workspace
\* of the token and prints its path; a checkout without create fails and
\* changes nothing.
C27_AutoCreateHandsOffToCreate ==
    (/\ last.cmd = "checkout"
     /\ config.present
     /\ ~bare
     /\ NoResolverMatch(last.pre, last.cwd, last.token)
     /\ sanitizeBranchName(last.token.n) # <<>>
     /\ last.failed = "none")
        => LET path == Canon(sanitizeBranchName(last.token.n))
           IN  IF last.autoCreate
               THEN /\ last.result = "ok"
                    /\ path \in dirs \cap linked
                    /\ head[path] = sanitizeBranchName(last.token.n)
                    /\ last.out = <<path>>
               ELSE /\ last.result = "error"
                    /\ World = last.pre

\* C28: in an initialised repository with a working tree in its root, a
\* checkout without create, started inside a feature workspace, of the name of
\* the branch that another workspace has checked out, while no workspace has
\* the default branch, prints the path of that other workspace.
C28_ResolvesWithoutDefaultBranchHolder ==
    (/\ last.cmd = "checkout"
     /\ ~last.autoCreate
     /\ config.present
     /\ ~bare
     /\ last.token.k = "rel"
     /\ last.cwd \in CanonPaths
     /\ DefaultBranchHolders(last.pre) = {})
        => \A p \in Workspaces(last.pre) \ {last.cwd} :
              last.pre.head[p] = last.token.n =>
                  /\ last.result = "ok"
                  /\ last.out = <<p>>

\* The port assignments of the project.
PortAssignments ==
    IF ProjectId \in DOMAIN globalState THEN globalState[ProjectId]
    ELSE [p \in {} |-> BasePort]

\* C29: after any sequence of init, setup and delete on one project, no two
\* paths of the project's port assignments have the same port, and every
\* assigned port is at least the base port.
C29_PortsUniqueAndAtLeastBase ==
    /\ \A p, q \in DOMAIN PortAssignments :
          p # q => PortAssignments[p] # PortAssignments[q]
    /\ \A p \in DOMAIN PortAssignments : PortAssignments[p] >= BasePort

\* The project directory and two workspaces hold ports, one of them found
\* after a port that another process listens on was passed over.
C29_ThreeAssignmentsOneSkipped ==
    /\ Cardinality(DOMAIN PortAssignments) = 3
    /\ \E p \in DOMAIN PortAssignments : PortAssignments[p] > BasePort + 2

\* C30: after a delete that removed a worktree, the global state has no port
\* assignment for the path of that worktree.
C30_DeleteReleasesPort ==
    (last.cmd = "delete" /\ last.result = "ok" /\ last.target \in last.removed) =>
        \A id \in DOMAIN globalState : last.target \notin DOMAIN globalState[id]

\* Position of a call in the mutation phase of delete.
StepRank(op) ==
    IF op = "hook:preDelete" THEN 1
    ELSE IF op = "worktreeRemove" THEN 2
    ELSE IF op = "worktreePrune" THEN 3
    ELSE IF op \in {branchDeleteOp(TRUE), branchDeleteOp(FALSE)} THEN 4
    ELSE IF op = "hook:postDelete" THEN 5
    ELSE 6

BranchDeleted(events) == \E f \in BOOLEAN : HasOp(events, branchDeleteOp(f))

\* C31: the calls of a delete that reached its mutation phase are made in the
\* order preDelete hook, worktree removal, metadata prune, branch deletion,
\* postDelete hook; the branch is deleted only after the worktree was
\* removed, the postDelete hook runs only after both succeeded, a configured
\* preDelete hook ran before the removal, and a failing metadata prune alone
\* leaves the delete successful with the branch deleted.
C31_DeleteStepOrder ==
    last.cmd = "delete" =>
        /\ \A i, j \in 1..Len(last.events) :
              i < j => StepRank(last.events[i].op) < StepRank(last.events[j].op)
        /\ BranchDeleted(last.events) =>
              /\ HasOp(last.events, "worktreeRemove")
              /\ last.target \notin dirs
        /\ HasOp(last.events, "hook:postDelete") =>
              /\ HasOp(last.events, "worktreeRemove")
              /\ BranchDeleted(last.events)
              /\ last.target \notin dirs
              /\ last.branch \notin branches
        /\ (HasOp(last.events, "worktreeRemove") /\ "preDelete" \in config.hooks) =>
              HasOp(last.events, "hook:preDelete")
        /\ last.failed = "prune" =>
              /\ last.result = "ok"
              /\ BranchDeleted(last.events)
              /\ ~HasOp(last.events, "worktreePrune")

\* A delete whose metadata prune failed went on to delete the branch.
C31_PruneFailedDeleteWentOn ==
    /\ last.cmd = "delete"
    /\ last.failed = "prune"
    /\ last.result = "ok"
    /\ "postDelete" \in config.hooks
    /\ HasOp(last.events, "hook:postDelete")

\* The observed command ran a hook, removed a worktree or deleted a branch.
Mutated(events) ==
    \/ HasOp(events, "hook:preDelete")
    \/ HasOp(events, "hook:postDelete")
    \/ HasOp(events, "worktreeRemove")
    \/ BranchDeleted(events)

\* C32: a forced delete or prune shows no confirmation prompt; one that is
\* not forced shows exactly one before it cancels or runs a hook, removes a
\* worktree or deletes a branch (one for all candidates of a prune); after a
\* declined prompt the command returns normally, having run no hook, removed
\* no worktree and deleted no branch.
C32_ConfirmationExactlyWithoutForce ==
    last.cmd \in {"delete", "prune"} =>
        /\ last.force => last.asked = 0
        /\ (~last.force /\ (last.note = "cancelled" \/ Mutated(last.events)
                             \/ last.removed # {}))
              => last.asked = 1
        /\ last.note = "cancelled" =>
              /\ ~last.force
              /\ last.result = "ok"
              /\ ~Mutated(last.events)
              /\ last.removed = {}
              /\ dirs = last.pre.dirs
              /\ branches = last.pre.branches

\* A prune that is not forced asked once and removed two workspaces.
C32_OnePromptForTheBatch ==
    /\ last.cmd = "prune"
    /\ ~last.force
    /\ last.asked = 1
    /\ Cardinality(last.removed) = 2


\* The merge target the claim names: origin/<default> when that remote ref
\* exists, the local default branch otherwise.
ExpectedTarget(w) ==
    IF hasOrigin THEN [k |-> "origin", n |-> Main]
    ELSE [k |-> "local", n |-> getMainBranch(w).branch]

\* The records prune chooses among: the worktrees listed after the stale
\* metadata is dropped that are not the main record and have a branch.
GateSubjects(w) ==
    LET list == getWorktrees(pruneWorktrees(w)).list
    IN  {list[i] : i \in {j \in 1..Len(list) :
                            ~list[j].isMain /\ list[j].branch # NoBranch}}

\* A non-forced delete got past its merge gate: it reached the configuration
\* check or the confirmation.
PassedGate(obs) == obs.note = "cancelled" \/ obs.err = "NotInitialized"

\* C33: prune and delete apply the same merge gate.  Whenever prune computes
\* its candidates, a non-primary workspace with a branch is a candidate
\* exactly when a non-forced delete of it in the same state gets past the merge
\* gate, and both check ancestry against origin/<default> when that ref
\* exists and against the local default branch otherwise.
C33_PruneAndDeleteShareMergeGate ==
    (last.cmd = "prune" /\ last.note \in {"nothing", "dryRun", "cancelled", "deleted"}) =>
        /\ last.mergeTarget = ExpectedTarget(last.pre)
        /\ \A wt \in GateSubjects(last.pre) :
              LET d == deleteCommand(last.pre, last.cwd, wt.path, FALSE, "none", FALSE).obs
              IN  /\ d.target = wt.path
                  /\ d.mergeTarget = last.mergeTarget
                  /\ (wt.path \in last.candidates) <=> PassedGate(d)

\* A prune with a remote that found a candidate next to a workspace it passed
\* over as unmerged.
C33_CandidateAndUnmergedSideBySide ==
    /\ last.cmd = "prune"
    /\ last.note \in {"dryRun", "cancelled", "deleted"}
    /\ last.mergeTarget.k = "origin"
    /\ last.candidates # {}
    /\ \E wt \in GateSubjects(last.pre) : wt.path \notin last.candidates


\* The positions of the worktree lines of a dump, in order.
RECURSIVE BlockStarts(_, _)
BlockStarts(lines, i) ==
    IF i > Len(lines) THEN <<>>
    ELSE (IF lines[i].t = "worktree" THEN <<i>> ELSE <<>>) \o BlockStarts(lines, i + 1)

\* The values of the lines of kind t in the k-th block of a dump.
BlockValues(lines, k, t) ==
    LET starts == BlockStarts(lines, 1)
        first == starts[k]
        end == IF k < Len(starts) THEN starts[k + 1] - 1 ELSE Len(lines)
    IN  {lines[j].v : j \in {x \in first..end : lines[x].t = t}}

\* C34: listWorkspaces returns one record per worktree line, in input order;
\* a record's head and branch are those of the HEAD and branch lines of its
\* own block, and a field the block does not have is absent from the record,
\* not taken over from the block before.
C34_OneRecordPerBlockNoInheritance ==
    last.cmd = "list" =>
        LET lines == last.tried
            starts == BlockStarts(lines, 1)
        IN  /\ Len(last.out) = Len(starts)
            /\ \A k \in 1..Len(starts) :
                  LET rec == last.out[k]
                      heads == BlockValues(lines, k, "HEAD")
                      brs == BlockValues(lines, k, "branch")
                  IN  /\ rec.path = lines[starts[k]].v
                      /\ IF heads = {} THEN rec.head = EmptyRec.head ELSE rec.head \in heads
                      /\ IF brs = {} THEN rec.branch = NoBranch ELSE rec.branch \in brs

\* A dump of two blocks whose second block is detached (a HEAD line and no
\* branch line) after a first block with a branch: the second record has no
\* branch.
C34_DetachedAfterBranch ==
    /\ last.cmd = "list"
    /\ Len(last.tried) = 4
    /\ Len(last.out) = 2
    /\ last.tried[2] = Line("branch", FA)
    /\ last.tried[4] = Line("HEAD", FB)
    /\ last.out[1].branch = FA
    /\ last.out[2].branch = NoBranch


\* C35: the hook runner executes nothing without a configured command; it
\* skips a configured command exactly when the hook is postSetup, the command
\* is a package manager, whitespace and `install` with any whitespace around
\* them, and the target directory has no package manifest; every other
\* configured command is executed, so preDelete and postDelete hooks are never
\* skipped.
C35_HookSkippedExactlyForDefaultInstall ==
    last.cmd = "hookDone" =>
        LET cmd == last.feature
            executed == last.out # <<>>
            words == SelectSeq(cmd, LAMBDA c : ~IsSpace(c))
            first == CHOOSE i \in 1..Len(cmd) : ~IsSpace(cmd[i])
            isInstall == /\ Len(words) = 2
                         /\ words[1] \in {"bun", "npm", "pnpm", "yarn"}
                         /\ words[2] = "install"
                         /\ IsSpace(cmd[first + 1])
        IN  /\ cmd = <<>> => ~executed
            /\ cmd # <<>> =>
                  (~executed <=> (last.note = "postSetup" /\ isInstall /\ ~manifest))
            /\ (cmd # <<>> /\ last.note \in {"preDelete", "postDelete"}) => executed

\* A postSetup command "<tab>bun<space><tab>install" in a directory without
\* a manifest was skipped.
C35_PaddedInstallSkipped ==
    /\ last.cmd = "hookDone"
    /\ last.note = "postSetup"
    /\ last.feature = <<"\t", "bun", " ", "install">>
    /\ ~manifest
    /\ last.out = <<>>


\* C36: create reports no partial success.  The primary output stream holds
\* the workspace path, and nothing else, only after a create in which the
\* worktree was added, the files were synced and the postSetup hook succeeded;
\* after a create that raised an error the stream is empty.
C36_NoOutputUnlessCreateSucceeded ==
    last.cmd = "create" =>
        /\ last.result = "error" => last.out = <<>>
        /\ last.out # <<>> =>
              /\ last.failed = "none"
              /\ last.target \in dirs
              /\ last.out[Len(last.out)] = last.target


\* C38: prune changes nothing outside its candidate set.  After a prune, with
\* or without force and dryRun, confirmed or declined, every workspace that
\* was on disk before and was not a candidate (the main worktree, a detached
\* one, one whose branch is not merged) is still there on the same branch,
\* and that branch still exists.
C38_PruneLeavesNonCandidates ==
    last.cmd = "prune" =>
        LET list == getWorktrees(pruneWorktrees(last.pre)).list
            protected == {list[i].path : i \in {j \in 1..Len(list) :
                              \/ list[j].isMain
                              \/ list[j].branch = NoBranch
                              \/ list[j].branch \notin last.pre.merged}}
            others == (last.pre.dirs \cap ({Root} \cup last.pre.linked)) \ last.candidates
        IN  \A p \in (protected \cap last.pre.dirs) \cup others :
                /\ p \in dirs
                /\ p = Root \/ p \in linked
                /\ head[p] = last.pre.head[p]
                /\ last.pre.head[p] # NoBranch => last.pre.head[p] \in branches

\* A confirmed prune removed a candidate and passed over a workspace that is
\* detached or whose branch is not merged.
C38_UnmergedKeptNextToRemoved ==
    /\ last.cmd = "prune"
    /\ last.result = "ok"
    /\ last.removed # {}
    /\ \E p \in last.pre.linked \cap last.pre.dirs :
          /\ p \notin last.candidates
          /\ last.pre.head[p] \notin last.pre.merged


\* C39: a delete whose target workspace is detached fails before any
\* mutation, with and without force: it raises the error of the branch query,
\* no hook runs, no worktree is removed and no branch is deleted.
C39_DetachedDeleteFailsUntouched ==
    (/\ last.cmd = "delete"
     /\ last.target \in last.pre.linked \cap last.pre.dirs
     /\ last.pre.head[last.target] = NoBranch) =>
        /\ last.result = "error"
        /\ last.err = "NoCurrentBranch"
        /\ last.events = <<>>
        /\ last.removed = {}
        /\ last.asked = 0
        /\ World = last.pre

\* A forced delete of a detached workspace was refused.
C39_ForcedDeleteOfDetachedRefused ==
    /\ last.cmd = "delete"
    /\ last.force
    /\ last.target \in last.pre.linked \cap last.pre.dirs
    /\ last.pre.head[last.target] = NoBranch
    /\ last.err = "NoCurrentBranch"
    /\ last.target \in dirs


\* C37: of two concurrent create invocations for one feature name, the
\* rollback of the one that fails removes only a workspace that this same
\* invocation created, never the directory the other invocation created.
C37_RollbackRemovesOnlyOwnWorkspace ==
    last.cmd = "concurrent" =>
        \A p \in Procs : last.removedOwner[p] \in {0, p}

====
